---- MODULE Spec2Model ----
(***************************************************************************)
(* A model of parts of the gVisor sandbox runtime:                         *)
(*   - pkg/sentry/mm/aio_context.go  (AIOContext)          : SpecAIO       *)
(*   - runsc/sandbox/sandbox.go      (Sandbox destroy/Wait): SpecSandbox   *)
(*   - pkg/sentry/vfs/dentry.go      (dentry delete/rename): SpecDentry    *)
(*   - runsc/boot/loader.go, controller (signal, run, Restore): SpecLoader *)
(*   - runsc/config/flags.go         (Override, CPU count) : SpecConfig    *)
(*   - pkg/sentry/arch               (NewMmapLayout)       : SpecMmap      *)
(*   - runsc/boot/compat             (unimplemented calls) : SpecCompat    *)
(*   - runsc/sandbox/sandbox.go      (namespaces)          : SpecNamespaces*)
(*   - runsc/sandbox/sandbox.go      (waitForStopped, not a child, with    *)
(*                                    fairness)     : SpecSandboxDetached  *)
(*   - runsc/sandbox/sandbox.go      (New and its cleanup) : SpecNew       *)
(*   - runsc/boot/loader.go          (subcontainers of a booted sandbox:   *)
(*                                    create, start, exec, destroy, wait,  *)
(*                                    signal, gofer monitor)               *)
(*                                                      : SpecContainers   *)
(*   - runsc/boot/loader.go, controller (StartRoot and Restore calls in    *)
(*                                    any number, with fairness): SpecStart*)
(* Each specification moves the variables of one subsystem and leaves the  *)
(* others at their initial values.                                         *)
(***************************************************************************)
EXTENDS Integers, Sequences, FiniteSets, TLC

(***************************************************************************)
(* Bounds of the model.                                                    *)
(***************************************************************************)
\* Largest value of the `events` argument of newAIOContext that is tried.
MaxEvents == 2
\* Largest number of successful Prepare calls in one behaviour.
MaxPrepares == 3
\* Largest number of FinishRequest calls in one behaviour.
MaxFinishes == 3

\* outstanding and maxOutstanding are uint32. TLC's integers are 32-bit signed,
\* so the wrap-around of the unsigned fields is modelled modulo 2^30: what
\* matters is that 0 - 1 wraps to a large positive value instead of -1.
UintMod == 1073741824

\* Largest number of Sandbox.destroy calls in one behaviour.
MaxDestroys == 2
\* Retries backoff.Retry makes in waitForStopped before its 5 s context
\* expires (5 s / 100 ms in the program).
PollBudget == 2

\* Largest number of dentry operations started in one behaviour.
MaxVfsOps == 4
\* Largest number of mounts on one dentry.
MaxMounts == 2

\* Largest number of tasks in the kernel.
MaxTasks == 3
\* Largest number of files passed to Restore.
MaxFiles == 3
\* Largest number of RPCs served in one behaviour.
MaxRpcs == 3
\* UnimplementedSyscall events received by the compatEmitter
MaxSyscalls == 3
\* Override calls made on one Config
MaxOverrides == 2
\* CPUs in the cgroup's cpuset
MaxCPUs == 4
\* the CPU quota ranges over -1 .. MaxQuota in steps of 1/QuotaDen
MaxQuota == 3
QuotaDen == 2

\* The ids (ring-buffer addresses) the aioManager map is keyed by.
AioIds == {1, 2}
\* The values passed to FinishRequest.
AioData == {"A", "B"}

VARIABLES
    \* ---- mm.aioManager and one AIOContext ----
    contexts,        \* ids under which the context is in aioManager.contexts
    requestReady,    \* the field: "chan" (the channel made at creation) or "nil"
    chanBuf,         \* notifications buffered in the channel (capacity 1)
    chanCloses,      \* number of close() calls made on the channel
    results,         \* ioList of completed requests (front first)
    maxOutstanding,
    outstanding,
    dead,
    aioPanic,        \* a Go panic was raised: the sentry is gone
    aioOp,           \* the last operation executed on the context
    aioRet,          \* what it returned
    nPrepared,       \* history: successful Prepare calls
    nPopped,         \* history: requests popped by PopRequest
    nCancelled,      \* history: CancelPendingRequest calls that returned
    nDrained,        \* history: results dropped by Drain
    nFinished,       \* history: FinishRequest calls
    nAtDestroy       \* history: outstanding when destroy was called

aioVars == <<contexts, requestReady, chanBuf, chanCloses, results, maxOutstanding,
             outstanding, dead, aioPanic, aioOp, aioRet, nPrepared, nPopped,
             nCancelled, nDrained, nFinished, nAtDestroy>>

\* ---- runsc/sandbox: one Sandbox, its host process and its callers ----
VARIABLES
    sbPid,        \* s.Pid: 0, or 1 for the pid of the sandbox process
    sbChild,      \* s.child
    sbStatus,     \* s.status (a unix.WaitStatus)
    statusMu,     \* s.statusMu: "free" or the thread that holds it
    ctlKind,      \* s.ControlAddress: a "path" or an "abstract" socket name
    ctlFile,      \* the control socket file exists
    proc,         \* the sandbox process: "running", "zombie" or "reaped"
    procStatus,   \* the wait status the process died with
    rootExit,     \* exit status of the root container in the sentry, or "none"
    subExit,      \* exit status of the subcontainer in the sentry, or "none"
    sbPc,         \* where each calling thread is
    sbCid,        \* the cid argument of the thread's Wait call
    sbWs,         \* the ws local of Wait (the reply of the Wait RPC)
    sbCaller,     \* which call site waitForStopped returns to
    sbPolls,      \* retries made by backoff.Retry in waitForStopped
    sbRet,        \* what the thread's Wait call returned, or "none"
    dRets,        \* what the destroy calls made so far returned, in order
    dSnap,        \* the sandbox as it was when the running destroy was called
    dKills,       \* history: processes killed by destroy's SIGKILL
    dWait4s,      \* history: wait4 calls made on behalf of destroy
    dSleeps,      \* history: backoff sleeps made on behalf of destroy
    dcPc,         \* where the DestroyContainer call of the destroyer is
    dcCid,        \* the container it was called for
    dcErr,        \* what its destroyContainer returned
    dcRets        \* history: what each DestroyContainer call returned

sandboxVars == <<sbPid, sbChild, sbStatus, statusMu, ctlKind, ctlFile, proc,
                 procStatus, rootExit, subExit, sbPc, sbCid, sbWs, sbCaller,
                 sbPolls, sbRet, dRets, dSnap, dKills, dWait4s, dSleeps>>

dcVars == <<dcPc, dcCid, dcErr, dcRets>>

sbVars == <<sandboxVars, dcVars>>

\* ---- pkg/sentry/vfs: dentries, mounts and filesystem threads ----
VARIABLES
    dMu,       \* Dentry.mu of each dentry: "free" or the thread that holds it
    mountMu,   \* VirtualFilesystem.mountMu: "free" or the thread that holds it
    dDead,     \* Dentry.dead
    mnt,       \* mntns.mountpoints[d]: mounts of each namespace on each dentry
    vPc,       \* where each filesystem thread is
    vArg,      \* the arguments of the operation the thread is in
    vRet,      \* what the thread's last Prepare call returned
    vFatal,    \* the Go runtime stopped the program (unlock of unlocked mutex)
    vOps,      \* history: operations started by each thread
    vRcs,      \* forgetDeadMountpoint: the references in rcs, by thread
    nDecRefs   \* history: DecRef calls made by forgetDeadMountpoint

vfsVars == <<dMu, mountMu, dDead, mnt, vPc, vArg, vRet, vFatal, vOps, vRcs,
             nDecRefs>>

\* ---- runsc/boot: the Loader, the containerManager and the Kernel ----
VARIABLES
    lMu,                 \* Loader.mu: "free" or the goroutine that holds it
    processes,           \* Loader.processes, by container id: the pid 0
                         \* entry and the pids of the exec entries
    lRestore,            \* Loader.restore
    confDisableSeccomp,  \* Loader.root.conf.DisableSeccomp
    confNetworkHost,     \* Loader.root.conf.Network == config.NetworkHost
    ckStale,             \* the kernel a Checkpoint holds is no longer l.k
    lK,                  \* Loader.k: the kernel of New ("boot") or of Restore
    nSaved,              \* history: checkpoints written by Checkpoint
    seccomp,             \* host filters: "none", "reported" or "installed"
    kPaused,             \* the kernel l.k: number of Pause calls in force
    kStarted,            \* the kernel l.k: Start has been called
    kLoaded,             \* the kernel l.k: a state file has been loaded
    kGlobalInit,         \* the kernel l.k: GlobalInit(), or NilTG
    tasks,               \* the kernel l.k: its tasks
    startIssued,         \* the client has issued StartRoot or Restore
    mPc,                 \* where the boot goroutine is
    mErr,                \* the boot goroutine: what Loader.run returned
    rPc,                 \* where each control-server goroutine is
    rArg,                \* the RPC the goroutine is serving
    rRet,                \* what its last RPC returned
    sSnap,               \* SendContainerSignal: the thread groups enumerated
    nRpcs                \* history: RPCs started

ldVars == <<lMu, processes, lRestore, confDisableSeccomp, confNetworkHost, ckStale, lK, nSaved, seccomp, kPaused,
            kStarted, kLoaded, kGlobalInit, tasks, startIssued, mPc, mErr,
            rPc, rArg, rRet, sSnap, nRpcs>>

\* ---- runsc/config: Config and its flag set; the sandbox command line ----
VARIABLES
    conf,       \* Config: the field of each flag
    flagSet,    \* the flag.FlagSet: the value held by each flag
    ovArg,      \* arguments of the last Override call
    ovErr,      \* what the last Override call returned
    nOverrides, \* history: Override calls made
    spArg,      \* what createSandboxProcess read from the cgroup
    cpuNumArg,  \* value of --cpu-num on the sandbox command line, 0: absent
    spErr       \* what createSandboxProcess returned, "none" before

cfVars == <<conf, flagSet, ovArg, ovErr, nOverrides, spArg, cpuNumArg, spErr>>

\* ---- pkg/sentry/arch: Context64.NewMmapLayout ----
VARIABLES
    mlArg,   \* arguments of NewMmapLayout: min, max and the stack limit
    mlRnd,   \* what mmapRand returned, none before the call
    mlRet    \* outcome of NewMmapLayout and the layout it built

mlVars == <<mlArg, mlRnd, mlRet>>

\* ---- runsc/boot: compatEmitter ----
VARIABLES
    trackers,   \* compatEmitter.trackers, by syscall number
    emitted,    \* history: the events written to the sink, in order
    nSyscalls   \* history: UnimplementedSyscall events received

ceVars == <<trackers, emitted, nSyscalls>>

\* ---- runsc/sandbox: the namespaces of the sandbox process ----
VARIABLES
    nsArg,    \* what createSandboxProcess is given: configuration, spec, host
    nss,      \* the namespaces to join or create, in order
    nsArgs,   \* the flags added to the sandbox command line
    nsRet     \* "none" before the call, then "nil" or "err"

nsVars == <<nsArg, nss, nsArgs, nsRet>>

\* ---- runsc/sandbox: New, the construction of the Sandbox ----
VARIABLES
    nwPc,        \* where the caller of New is
    nwArg,       \* what New is given: configuration and arguments
    nwRet,       \* "none" before New returns, then "nil" or "err"
    nwCleanup,   \* the cleanup.Cleanup of New: "none", "armed", "released", "ran"
    nwSpawned    \* history: StartInNS has started a sandbox process

nwVars == <<nwPc, nwArg, nwRet, nwCleanup, nwSpawned>>

vars == <<aioVars, sbVars, vfsVars, ldVars, cfVars, mlVars, ceVars, nsVars,
          nwVars>>

(***************************************************************************)
(* uint32 arithmetic.                                                      *)
(***************************************************************************)
Add32(a, b) == (a + b) % UintMod
Sub32(a, b) == (a - b + UintMod) % UintMod

(***************************************************************************)
(* AIOContext                                                              *)
(***************************************************************************)

\* newAIOContext(events, id): the context right after it was put in the map.
AIOInit ==
    /\ \E id \in AioIds : contexts = {id}
    /\ requestReady = "chan"
    /\ chanBuf = 0
    /\ chanCloses = 0
    /\ results = <<>>
    /\ maxOutstanding \in 0..MaxEvents
    /\ outstanding = 0
    /\ dead = FALSE
    /\ aioPanic = FALSE
    /\ aioOp = "new"
    /\ aioRet = "nil"
    /\ nPrepared = 0 /\ nPopped = 0 /\ nCancelled = 0 /\ nDrained = 0
    /\ nFinished = 0
    /\ nAtDestroy = 0

\* checkForDone, given the values of dead and outstanding it reads: closes the
\* channel and clears the field. close() of a nil channel panics in Go.
checkForDoneMutant(d, o) ==
    IF d
    THEN /\ requestReady' = "nil"
         /\ chanCloses' = IF requestReady = "chan" THEN chanCloses + 1 ELSE chanCloses
         /\ aioPanic' = (requestReady = "nil")
    ELSE /\ UNCHANGED <<requestReady, chanCloses, aioPanic>>

checkForDone(d, o) ==
    IF d /\ o = 0
    THEN /\ requestReady' = "nil"
         /\ chanCloses' = IF requestReady = "chan" THEN chanCloses + 1 ELSE chanCloses
         /\ aioPanic' = (requestReady = "nil")
    ELSE /\ UNCHANGED <<requestReady, chanCloses, aioPanic>>

\* AIOContext.destroy
destroy ==
    /\ dead' = TRUE
    /\ checkForDone(TRUE, outstanding)
    /\ UNCHANGED <<chanBuf, results, maxOutstanding, outstanding>>

\* MemoryManager.destroyAIOContextLocked(id), as called by DestroyAIOContext
\* and destroyAIOManager.
destroyAIOContextLocked ==
    /\ ~aioPanic
    /\ \E id \in AioIds :
         IF id \notin contexts
         THEN /\ aioRet' = "nil"
              /\ UNCHANGED <<contexts, requestReady, chanBuf, chanCloses, results,
                             maxOutstanding, outstanding, dead, aioPanic,
                             nAtDestroy>>
         ELSE /\ contexts' = contexts \ {id}
              /\ destroy
              /\ nAtDestroy' = outstanding
              /\ aioRet' = "ctx"
    /\ aioOp' = "destroy"
    /\ UNCHANGED <<nPrepared, nPopped, nCancelled, nDrained, nFinished>>

\* AIOContext.Prepare
PrepareMutant ==
    /\ ~aioPanic
    /\ IF outstanding >= maxOutstanding
       THEN /\ aioRet' = "EAGAIN"
            /\ UNCHANGED <<outstanding, nPrepared>>
       ELSE /\ nPrepared < MaxPrepares
            /\ outstanding' = Add32(outstanding, 1)
            /\ nPrepared' = nPrepared + 1
            /\ aioRet' = "nil"
    /\ aioOp' = "Prepare"
    /\ UNCHANGED <<contexts, requestReady, chanBuf, chanCloses, results,
                   maxOutstanding, dead, aioPanic, nPopped, nCancelled, nDrained,
                   nFinished, nAtDestroy>>

\* A Prepare that does not compare outstanding with maxOutstanding.
PrepareOverCapacity ==
    /\ ~aioPanic
    /\ IF dead
       THEN /\ aioRet' = "EINVAL"
            /\ UNCHANGED <<outstanding, nPrepared>>
       ELSE /\ nPrepared < MaxPrepares
            /\ outstanding' = Add32(outstanding, 1)
            /\ nPrepared' = nPrepared + 1
            /\ aioRet' = "nil"
    /\ aioOp' = "Prepare"
    /\ UNCHANGED <<contexts, requestReady, chanBuf, chanCloses, results,
                   maxOutstanding, dead, aioPanic, nPopped, nCancelled, nDrained,
                   nFinished, nAtDestroy>>

Prepare ==
    /\ ~aioPanic
    /\ IF dead
       THEN /\ aioRet' = "EINVAL"
            /\ UNCHANGED <<outstanding, nPrepared>>
       ELSE IF outstanding >= maxOutstanding
       THEN /\ aioRet' = "EAGAIN"
            /\ UNCHANGED <<outstanding, nPrepared>>
       ELSE /\ nPrepared < MaxPrepares
            /\ outstanding' = Add32(outstanding, 1)
            /\ nPrepared' = nPrepared + 1
            /\ aioRet' = "nil"
    /\ aioOp' = "Prepare"
    /\ UNCHANGED <<contexts, requestReady, chanBuf, chanCloses, results,
                   maxOutstanding, dead, aioPanic, nPopped, nCancelled, nDrained,
                   nFinished, nAtDestroy>>

\* AIOContext.PopRequest
PopRequest ==
    /\ ~aioPanic
    /\ IF results # <<>>
       THEN IF outstanding = 0
            THEN /\ aioPanic' = TRUE
                 /\ aioRet' = "panic"
                 /\ UNCHANGED <<outstanding, results, requestReady, chanCloses,
                                nPopped>>
            ELSE /\ outstanding' = Sub32(outstanding, 1)
                 /\ results' = Tail(results)
                 /\ checkForDone(dead, Sub32(outstanding, 1))
                 /\ aioRet' = Head(results)
                 /\ nPopped' = nPopped + 1
       ELSE /\ aioRet' = "false"
            /\ UNCHANGED <<outstanding, results, requestReady, chanCloses,
                           aioPanic, nPopped>>
    /\ aioOp' = "PopRequest"
    /\ UNCHANGED <<contexts, chanBuf, maxOutstanding, dead, nPrepared, nCancelled,
                   nDrained, nFinished, nAtDestroy>>

\* AIOContext.FinishRequest(data): queue the result; non-blocking send on
\* requestReady (a send on a nil channel or a full one takes the default case).
FinishRequest ==
    /\ ~aioPanic
    /\ nFinished < MaxFinishes
    /\ \E data \in AioData : results' = Append(results, data)
    /\ chanBuf' = IF requestReady = "chan" /\ chanBuf = 0 THEN 1 ELSE chanBuf
    /\ nFinished' = nFinished + 1
    /\ aioOp' = "FinishRequest"
    /\ aioRet' = "nil"
    /\ UNCHANGED <<contexts, requestReady, chanCloses, maxOutstanding, outstanding,
                   dead, aioPanic, nPrepared, nPopped, nCancelled, nDrained,
                   nAtDestroy>>

\* A WaitChannel that hands out the channel the context was created with,
\* whatever the requestReady field holds.
WaitChannelKeepsChannel ==
    /\ ~aioPanic
    /\ aioOp' = "WaitChannel"
    /\ aioRet' = "chan"
    /\ UNCHANGED <<contexts, requestReady, chanBuf, chanCloses, results,
                   maxOutstanding, outstanding, dead, aioPanic, nPrepared, nPopped,
                   nCancelled, nDrained, nFinished, nAtDestroy>>

\* AIOContext.WaitChannel
WaitChannel ==
    /\ ~aioPanic
    /\ aioOp' = "WaitChannel"
    /\ aioRet' = requestReady
    /\ UNCHANGED <<contexts, requestReady, chanBuf, chanCloses, results,
                   maxOutstanding, outstanding, dead, aioPanic, nPrepared, nPopped,
                   nCancelled, nDrained, nFinished, nAtDestroy>>

\* AIOContext.Dead
Dead ==
    /\ ~aioPanic
    /\ aioOp' = "Dead"
    /\ aioRet' = IF dead THEN "true" ELSE "false"
    /\ UNCHANGED <<contexts, requestReady, chanBuf, chanCloses, results,
                   maxOutstanding, outstanding, dead, aioPanic, nPrepared, nPopped,
                   nCancelled, nDrained, nFinished, nAtDestroy>>

\* AIOContext.CancelPendingRequest
CancelPendingRequest ==
    /\ ~aioPanic
    /\ IF outstanding = 0
       THEN /\ aioPanic' = TRUE
            /\ aioRet' = "panic"
            /\ UNCHANGED <<outstanding, requestReady, chanCloses, nCancelled>>
       ELSE /\ outstanding' = Sub32(outstanding, 1)
            /\ checkForDone(dead, Sub32(outstanding, 1))
            /\ aioRet' = "nil"
            /\ nCancelled' = nCancelled + 1
    /\ aioOp' = "CancelPendingRequest"
    /\ UNCHANGED <<contexts, chanBuf, results, maxOutstanding, dead, nPrepared,
                   nPopped, nDrained, nFinished, nAtDestroy>>

\* AIOContext.Drain
DrainKeepsOutstanding ==
    /\ ~aioPanic
    /\ IF outstanding = 0
       THEN /\ UNCHANGED <<results, nDrained>>
       ELSE /\ results' = <<>>
            /\ nDrained' = nDrained + Len(results)
    /\ aioRet' = "nil"
    /\ aioOp' = "Drain"
    /\ UNCHANGED <<contexts, chanBuf, maxOutstanding, dead, nPrepared, nPopped,
                   nCancelled, nFinished, nAtDestroy, outstanding, requestReady,
                   chanCloses,
                   aioPanic>>

\* A Drain that drops the results and does not call checkForDone.
DrainWithoutCheckForDone ==
    /\ ~aioPanic
    /\ IF outstanding = 0
       THEN /\ UNCHANGED <<outstanding, results, nDrained>>
       ELSE /\ outstanding' = Sub32(outstanding, Len(results) % UintMod)
            /\ results' = <<>>
            /\ nDrained' = nDrained + Len(results)
    /\ aioRet' = "nil"
    /\ aioOp' = "Drain"
    /\ UNCHANGED <<contexts, chanBuf, maxOutstanding, dead, nPrepared, nPopped,
                   nCancelled, nFinished, nAtDestroy, requestReady, chanCloses,
                   aioPanic>>

DrainMutant ==
    /\ ~aioPanic
    /\ IF outstanding = 0
       THEN /\ aioRet' = "nil"
            /\ UNCHANGED <<outstanding, results, requestReady, chanCloses,
                           aioPanic, nDrained>>
       ELSE /\ outstanding' = Sub32(outstanding, Len(results))
            /\ results' = <<>>
            /\ nDrained' = nDrained + Len(results)
            /\ checkForDone(dead, Sub32(outstanding, Len(results)))
            /\ aioRet' = "nil"
    /\ aioOp' = "Drain"
    /\ UNCHANGED <<contexts, chanBuf, maxOutstanding, dead, nPrepared, nPopped,
                   nCancelled, nFinished, nAtDestroy>>

Drain ==
    /\ ~aioPanic
    /\ IF outstanding = 0
       THEN /\ aioRet' = "nil"
            /\ UNCHANGED <<outstanding, results, requestReady, chanCloses,
                           aioPanic, nDrained>>
       ELSE IF outstanding < Len(results) % UintMod
       THEN /\ aioPanic' = TRUE
            /\ aioRet' = "panic"
            /\ UNCHANGED <<outstanding, results, requestReady, chanCloses,
                           nDrained>>
       ELSE /\ outstanding' = Sub32(outstanding, Len(results) % UintMod)
            /\ results' = <<>>
            /\ nDrained' = nDrained + Len(results)
            /\ checkForDone(dead, Sub32(outstanding, Len(results) % UintMod))
            /\ aioRet' = "nil"
    /\ aioOp' = "Drain"
    /\ UNCHANGED <<contexts, chanBuf, maxOutstanding, dead, nPrepared, nPopped,
                   nCancelled, nFinished, nAtDestroy>>

\* The state the AIOContext variables keep in the specifications of the
\* other subsystems.
AIOIdle ==
    /\ contexts = {1}
    /\ requestReady = "chan"
    /\ chanBuf = 0
    /\ chanCloses = 0
    /\ results = <<>>
    /\ maxOutstanding = 0
    /\ outstanding = 0
    /\ dead = FALSE
    /\ aioPanic = FALSE
    /\ aioOp = "new"
    /\ aioRet = "nil"
    /\ nPrepared = 0 /\ nPopped = 0 /\ nCancelled = 0 /\ nDrained = 0
    /\ nFinished = 0
    /\ nAtDestroy = 0

(***************************************************************************)
(* Sandbox (runsc/sandbox/sandbox.go)                                      *)
(***************************************************************************)

\* The threads of the supervisor that call into the Sandbox.
Waiters == {"w1", "w2"}
Destroyer == "d"
SbThreads == Waiters \cup {Destroyer}

\* The container ids a caller may name: the root container's id is the
\* sandbox id.
SbCids == {"root", "sub"}

\* unix.WaitStatus values: exited with 0 (the zero value of the type, which
\* is what unix.WaitStatus(0) and an unset s.status are), exited with 1,
\* killed by SIGKILL.
ZeroStatus == "exit0"
ExitStatuses == {"exit0", "exit1"}
KilledBySIGKILL == "sigkill"

NoReturn == [st |-> ZeroStatus, err |-> "none", via |-> "none"]

\* The Sandbox after New (a child of this process), after being loaded from
\* its state file by another runsc invocation (not a child), or before any
\* process was spawned (Pid 0).
SandboxInit ==
    /\ \/ sbPid = 1 /\ sbChild \in BOOLEAN /\ proc = "running"
       \/ sbPid = 0 /\ sbChild = FALSE /\ proc = "reaped"
    /\ sbStatus = ZeroStatus
    /\ statusMu = "free"
    /\ ctlKind \in {"path", "abstract"}
    /\ ctlFile = (ctlKind = "path" /\ sbPid # 0)
    /\ procStatus = ZeroStatus
    /\ rootExit = "none"
    /\ subExit = "none"
    /\ sbPc = [t \in SbThreads |-> "idle"]
    /\ sbCid = [t \in SbThreads |-> "root"]
    /\ sbWs = [t \in SbThreads |-> ZeroStatus]
    /\ sbCaller = [t \in SbThreads |-> "none"]
    /\ sbPolls = [t \in SbThreads |-> 0]
    /\ sbRet = [t \in SbThreads |-> NoReturn]
    /\ dRets = <<>>
    /\ dSnap = <<>>
    /\ dKills = 0
    /\ dWait4s = 0
    /\ dSleeps = 0
    /\ dcPc = "idle"
    /\ dcCid = "root"
    /\ dcErr = "nil"
    /\ dcRets = <<>>

\* The state the Sandbox variables keep in the specifications of the other
\* subsystems.
SandboxIdle ==
    /\ sbPid = 1 /\ sbChild = TRUE /\ proc = "running"
    /\ sbStatus = ZeroStatus
    /\ statusMu = "free"
    /\ ctlKind = "path"
    /\ ctlFile = TRUE
    /\ procStatus = ZeroStatus
    /\ rootExit = "none"
    /\ subExit = "none"
    /\ sbPc = [t \in SbThreads |-> "idle"]
    /\ sbCid = [t \in SbThreads |-> "root"]
    /\ sbWs = [t \in SbThreads |-> ZeroStatus]
    /\ sbCaller = [t \in SbThreads |-> "none"]
    /\ sbPolls = [t \in SbThreads |-> 0]
    /\ sbRet = [t \in SbThreads |-> NoReturn]
    /\ dRets = <<>>
    /\ dSnap = <<>>
    /\ dKills = 0
    /\ dWait4s = 0
    /\ dSleeps = 0
    /\ dcPc = "idle"
    /\ dcCid = "root"
    /\ dcErr = "nil"
    /\ dcRets = <<>>

\* Sandbox.IsRootContainer
IsRootContainer(cid) == cid = "root"

\* Sandbox.IsRunning: Pid is set and kill(pid, 0) succeeds, which it does for
\* a running process and for a zombie that was not reaped yet.
IsRunning == sbPid # 0 /\ proc \in {"running", "zombie"}

\* Sandbox.sandboxConnect succeeds when the control server of a running
\* sandbox can be reached at s.ControlAddress.
CanConnect == proc = "running" /\ (ctlKind = "abstract" \/ ctlFile)

\* What the sandbox looks like to a caller of destroy.
SandboxSnapshot ==
    [pid |-> sbPid, child |-> sbChild, status |-> sbStatus, ctl |-> ctlFile,
     proc |-> proc, kills |-> dKills, wait4s |-> dWait4s, sleeps |-> dSleeps]

\* ---- the sandbox process and the sentry inside it ----

\* The root container's init process exits inside the sentry.
RootContainerExits ==
    /\ proc = "running" /\ rootExit = "none"
    /\ \E st \in ExitStatuses : rootExit' = st
    /\ UNCHANGED <<sbPid, sbChild, sbStatus, statusMu, ctlKind, ctlFile, proc,
                   procStatus, subExit, sbPc, sbCid, sbWs, sbCaller, sbPolls,
                   sbRet, dRets, dSnap, dKills, dWait4s, dSleeps>>

\* The subcontainer's init process exits inside the sentry.
SubcontainerExits ==
    /\ proc = "running" /\ subExit = "none" /\ rootExit = "none"
    /\ \E st \in ExitStatuses : subExit' = st
    /\ UNCHANGED <<sbPid, sbChild, sbStatus, statusMu, ctlKind, ctlFile, proc,
                   procStatus, rootExit, sbPc, sbCid, sbWs, sbCaller, sbPolls,
                   sbRet, dRets, dSnap, dKills, dWait4s, dSleeps>>

\* After its root container has exited the sandbox process exits with the
\* container's status.
SandboxProcessExits ==
    /\ proc = "running" /\ rootExit # "none"
    /\ proc' = "zombie"
    /\ procStatus' = rootExit
    /\ UNCHANGED <<sbPid, sbChild, sbStatus, statusMu, ctlKind, ctlFile, rootExit,
                   subExit, sbPc, sbCid, sbWs, sbCaller, sbPolls, sbRet, dRets,
                   dSnap, dKills, dWait4s, dSleeps>>

\* A sandbox process that is not a child of this supervisor is reaped by its
\* own parent.
ParentReaps ==
    /\ proc = "zombie" /\ ~sbChild
    /\ proc' = "reaped"
    /\ UNCHANGED <<sbPid, sbChild, sbStatus, statusMu, ctlKind, ctlFile,
                   procStatus, rootExit, subExit, sbPc, sbCid, sbWs, sbCaller,
                   sbPolls, sbRet, dRets, dSnap, dKills, dWait4s, dSleeps>>

\* ---- waitForStopped ----

\* The return of waitForStopped to its call site in Wait or destroy; err is
\* "nil" or "err".
ReturnFromWaitForStopped(t, err) ==
    /\ sbCaller' = [sbCaller EXCEPT ![t] = "none"]
    /\ sbPolls' = [sbPolls EXCEPT ![t] = 0]
    /\ CASE sbCaller[t] = "destroy" ->
              /\ dRets' = Append(dRets, err)
              /\ sbPc' = [sbPc EXCEPT ![t] = "idle"]
              /\ UNCHANGED sbRet
         [] sbCaller[t] = "rpc" ->
              /\ sbRet' = [sbRet EXCEPT ![t] =
                    IF err = "nil" THEN [st |-> sbWs[t], err |-> "nil", via |-> "rpc"]
                    ELSE [st |-> ZeroStatus, err |-> "err", via |-> "rpc"]]
              /\ sbPc' = [sbPc EXCEPT ![t] = "done"]
              /\ UNCHANGED dRets
         [] OTHER ->
              /\ UNCHANGED dRets
              /\ IF err # "nil" \/ ~sbChild
                 THEN /\ sbRet' = [sbRet EXCEPT ![t] =
                            [st |-> ZeroStatus, err |-> "err", via |-> "fallback"]]
                      /\ sbPc' = [sbPc EXCEPT ![t] = "done"]
                 ELSE /\ UNCHANGED sbRet
                      /\ sbPc' = [sbPc EXCEPT ![t] = "status"]

\* waitForStopped, s.child: s.statusMu.Lock()
waitForStoppedLock(t) ==
    /\ sbPc[t] = "wfs_lock"
    /\ statusMu = "free"
    /\ statusMu' = t
    /\ sbPc' = [sbPc EXCEPT ![t] = "wfs_wait4"]
    /\ UNCHANGED <<sbPid, sbChild, sbStatus, ctlKind, ctlFile, proc, procStatus,
                   rootExit, subExit, sbCid, sbWs, sbCaller, sbPolls, sbRet, dRets,
                   dSnap, dKills, dWait4s, dSleeps>>

\* waitForStopped, s.child, with s.statusMu held: return if Pid is 0, else
\* wait4(pid, &s.status), which blocks until the child is a zombie and reaps
\* it (it fails with ECHILD when there is no such child), then Pid.store(0).
\* The deferred Unlock runs on every return.
waitForStoppedKeepsPid(t) ==
    /\ sbPc[t] = "wfs_wait4"
    /\ statusMu' = "free"
    /\ IF sbPid = 0
       THEN /\ ReturnFromWaitForStopped(t, "nil")
            /\ UNCHANGED <<sbPid, sbStatus, proc, dWait4s>>
       ELSE /\ dWait4s' = IF sbCaller[t] = "destroy" THEN dWait4s + 1 ELSE dWait4s
            /\ \/ /\ proc = "zombie"
                  /\ sbStatus' = procStatus
                  /\ proc' = "reaped"
                  /\ UNCHANGED sbPid
                  /\ ReturnFromWaitForStopped(t, "nil")
               \/ /\ proc = "reaped"
                  /\ UNCHANGED <<sbPid, sbStatus, proc>>
                  /\ ReturnFromWaitForStopped(t, "err")
    /\ UNCHANGED <<sbChild, ctlKind, ctlFile, procStatus, rootExit, subExit, sbCid,
                   sbWs, dSnap, dKills, dSleeps>>

waitForStoppedDropsStatus(t) ==
    /\ sbPc[t] = "wfs_wait4"
    /\ statusMu' = "free"
    /\ IF sbPid = 0
       THEN /\ ReturnFromWaitForStopped(t, "nil")
            /\ UNCHANGED <<sbPid, sbStatus, proc, dWait4s>>
       ELSE /\ dWait4s' = IF sbCaller[t] = "destroy" THEN dWait4s + 1 ELSE dWait4s
            /\ \/ /\ proc = "zombie"
                  /\ UNCHANGED sbStatus
                  /\ proc' = "reaped"
                  /\ sbPid' = 0
                  /\ ReturnFromWaitForStopped(t, "nil")
               \/ /\ proc = "reaped"
                  /\ UNCHANGED <<sbPid, sbStatus, proc>>
                  /\ ReturnFromWaitForStopped(t, "err")
    /\ UNCHANGED <<sbChild, ctlKind, ctlFile, procStatus, rootExit, subExit, sbCid,
                   sbWs, dSnap, dKills, dSleeps>>

waitForStoppedChild(t) ==
    /\ sbPc[t] = "wfs_wait4"
    /\ statusMu' = "free"
    /\ IF sbPid = 0
       THEN /\ ReturnFromWaitForStopped(t, "nil")
            /\ UNCHANGED <<sbPid, sbStatus, proc, dWait4s>>
       ELSE /\ dWait4s' = IF sbCaller[t] = "destroy" THEN dWait4s + 1 ELSE dWait4s
            /\ \/ /\ proc = "zombie"
                  /\ sbStatus' = procStatus
                  /\ proc' = "reaped"
                  /\ sbPid' = 0
                  /\ ReturnFromWaitForStopped(t, "nil")
               \/ /\ proc = "reaped"
                  /\ UNCHANGED <<sbPid, sbStatus, proc>>
                  /\ ReturnFromWaitForStopped(t, "err")
    /\ UNCHANGED <<sbChild, ctlKind, ctlFile, procStatus, rootExit, subExit, sbCid,
                   sbWs, dSnap, dKills, dSleeps>>

\* A waitForStopped that retries without a time budget.
waitForStoppedPollNoBudget(t) ==
    /\ sbPc[t] = "wfs_poll"
    /\ IF ~IsRunning
       THEN /\ ReturnFromWaitForStopped(t, "nil")
            /\ UNCHANGED dSleeps
       ELSE /\ sbPolls' = [sbPolls EXCEPT ![t] = sbPolls[t] + 1]
            /\ dSleeps' = IF sbCaller[t] = "destroy" THEN dSleeps + 1 ELSE dSleeps
            /\ UNCHANGED <<sbPc, sbCaller, sbRet, dRets>>
    /\ UNCHANGED <<sbPid, sbChild, sbStatus, statusMu, ctlKind, ctlFile, proc,
                   procStatus, rootExit, subExit, sbCid, sbWs, dSnap, dKills,
                   dWait4s>>

\* waitForStopped, not s.child: one run of op under backoff.Retry.
waitForStoppedPoll(t) ==
    /\ sbPc[t] = "wfs_poll"
    /\ IF ~IsRunning
       THEN /\ ReturnFromWaitForStopped(t, "nil")
            /\ UNCHANGED dSleeps
       ELSE IF sbPolls[t] < PollBudget
       THEN /\ sbPolls' = [sbPolls EXCEPT ![t] = sbPolls[t] + 1]
            /\ dSleeps' = IF sbCaller[t] = "destroy" THEN dSleeps + 1 ELSE dSleeps
            /\ UNCHANGED <<sbPc, sbCaller, sbRet, dRets>>
       ELSE /\ ReturnFromWaitForStopped(t, "err")
            /\ UNCHANGED dSleeps
    /\ UNCHANGED <<sbPid, sbChild, sbStatus, statusMu, ctlKind, ctlFile, proc,
                   procStatus, rootExit, subExit, sbCid, sbWs, dSnap, dKills,
                   dWait4s>>

\* The first program point of waitForStopped.
waitForStoppedEntry == IF sbChild THEN "wfs_lock" ELSE "wfs_poll"

\* ---- Sandbox.Wait(cid) ----

\* Wait up to the result of sandboxConnect.
WaitConnect(t) ==
    /\ t \in Waiters
    /\ sbPc[t] = "idle"
    /\ \E cid \in SbCids :
         /\ sbCid' = [sbCid EXCEPT ![t] = cid]
         /\ IF CanConnect
            THEN /\ sbPc' = [sbPc EXCEPT ![t] = "rpc"]
                 /\ UNCHANGED <<sbRet, sbCaller>>
            ELSE IF ~IsRootContainer(cid)
            THEN /\ sbRet' = [sbRet EXCEPT ![t] =
                       [st |-> ZeroStatus, err |-> "err", via |-> "connect"]]
                 /\ sbPc' = [sbPc EXCEPT ![t] = "done"]
                 /\ UNCHANGED sbCaller
            ELSE /\ sbPc' = [sbPc EXCEPT ![t] = waitForStoppedEntry]
                 /\ sbCaller' = [sbCaller EXCEPT ![t] = "fallback"]
                 /\ UNCHANGED sbRet
    /\ UNCHANGED <<sbPid, sbChild, sbStatus, statusMu, ctlKind, ctlFile, proc,
                   procStatus, rootExit, subExit, sbWs, sbPolls, dRets, dSnap,
                   dKills, dWait4s, dSleeps>>

\* The exit status the sentry has for the container, or "none".
ContainerExit(cid) == IF IsRootContainer(cid) THEN rootExit ELSE subExit

\* conn.Call(boot.ContMgrWait, &cid, &ws) returns the container's status once
\* the container has exited.
WaitRPCReply(t) ==
    /\ sbPc[t] = "rpc"
    /\ ContainerExit(sbCid[t]) # "none"
    /\ sbWs' = [sbWs EXCEPT ![t] = ContainerExit(sbCid[t])]
    /\ IF IsRootContainer(sbCid[t])
       THEN /\ sbPc' = [sbPc EXCEPT ![t] = waitForStoppedEntry]
            /\ sbCaller' = [sbCaller EXCEPT ![t] = "rpc"]
            /\ UNCHANGED sbRet
       ELSE /\ sbRet' = [sbRet EXCEPT ![t] =
                  [st |-> ContainerExit(sbCid[t]), err |-> "nil", via |-> "rpc"]]
            /\ sbPc' = [sbPc EXCEPT ![t] = "done"]
            /\ UNCHANGED sbCaller
    /\ UNCHANGED <<sbPid, sbChild, sbStatus, statusMu, ctlKind, ctlFile, proc,
                   procStatus, rootExit, subExit, sbCid, sbPolls, dRets, dSnap,
                   dKills, dWait4s, dSleeps>>

\* conn.Call(boot.ContMgrWait, ...) fails: the sandbox went away during the
\* call.
WaitRPCFails(t) ==
    /\ sbPc[t] = "rpc"
    /\ proc # "running"
    /\ IF ~IsRootContainer(sbCid[t])
       THEN /\ sbRet' = [sbRet EXCEPT ![t] =
                  [st |-> ZeroStatus, err |-> "err", via |-> "rpc"]]
            /\ sbPc' = [sbPc EXCEPT ![t] = "done"]
            /\ UNCHANGED sbCaller
       ELSE /\ sbPc' = [sbPc EXCEPT ![t] = waitForStoppedEntry]
            /\ sbCaller' = [sbCaller EXCEPT ![t] = "fallback"]
            /\ UNCHANGED sbRet
    /\ UNCHANGED <<sbPid, sbChild, sbStatus, statusMu, ctlKind, ctlFile, proc,
                   procStatus, rootExit, subExit, sbCid, sbWs, sbPolls, dRets,
                   dSnap, dKills, dWait4s, dSleeps>>

\* The end of Wait: s.statusMu.Lock(); return s.status, nil.
WaitReturnStatus(t) ==
    /\ sbPc[t] = "status"
    /\ statusMu = "free"
    /\ sbRet' = [sbRet EXCEPT ![t] =
          [st |-> sbStatus, err |-> "nil", via |-> "fallback"]]
    /\ sbPc' = [sbPc EXCEPT ![t] = "done"]
    /\ UNCHANGED <<sbPid, sbChild, sbStatus, statusMu, ctlKind, ctlFile, proc,
                   procStatus, rootExit, subExit, sbCid, sbWs, sbCaller, sbPolls,
                   dRets, dSnap, dKills, dWait4s, dSleeps>>

\* ---- Sandbox.destroy ----

\* destroy up to s.Pid.load(): the control socket file is removed when the
\* address is a path; with Pid 0 the call returns nil.
destroyStart(t) ==
    /\ t = Destroyer
    /\ sbPc[t] = "idle"
    /\ Len(dRets) < MaxDestroys
    /\ dSnap' = SandboxSnapshot
    /\ ctlFile' = IF ctlKind = "path" THEN FALSE ELSE ctlFile
    /\ IF sbPid # 0
       THEN /\ sbPc' = [sbPc EXCEPT ![t] = "kill"]
            /\ UNCHANGED dRets
       ELSE /\ dRets' = Append(dRets, "nil")
            /\ UNCHANGED sbPc
    /\ UNCHANGED <<sbPid, sbChild, sbStatus, statusMu, ctlKind, proc, procStatus,
                   rootExit, subExit, sbCid, sbWs, sbCaller, sbPolls, sbRet, dKills,
                   dWait4s, dSleeps>>

\* unix.Kill(pid, unix.SIGKILL): a running process dies of the signal; a
\* zombie is unaffected; no such process gives ESRCH, which destroy ignores.
destroyKill(t) ==
    /\ sbPc[t] = "kill"
    /\ IF proc = "running"
       THEN /\ proc' = "zombie"
            /\ procStatus' = KilledBySIGKILL
            /\ dKills' = dKills + 1
       ELSE UNCHANGED <<proc, procStatus, dKills>>
    /\ sbPc' = [sbPc EXCEPT ![t] = waitForStoppedEntry]
    /\ sbCaller' = [sbCaller EXCEPT ![t] = "destroy"]
    /\ UNCHANGED <<sbPid, sbChild, sbStatus, statusMu, ctlKind, ctlFile, rootExit,
                   subExit, sbCid, sbWs, sbPolls, sbRet, dRets, dSnap, dWait4s,
                   dSleeps>>

\* unix.Kill fails with another error (EPERM): destroy returns it.
destroyKillFails(t) ==
    /\ sbPc[t] = "kill"
    /\ proc # "reaped"
    /\ dRets' = Append(dRets, "err")
    /\ sbPc' = [sbPc EXCEPT ![t] = "idle"]
    /\ UNCHANGED <<sbPid, sbChild, sbStatus, statusMu, ctlKind, ctlFile, proc,
                   procStatus, rootExit, subExit, sbCid, sbWs, sbCaller, sbPolls,
                   sbRet, dSnap, dKills, dWait4s, dSleeps>>

\* ---- DestroyContainer ----

\* Sandbox.DestroyContainer(cid) up to the first step of destroyContainer:
\* for the root container that is s.destroy(); for a subcontainer it is the
\* DestroySubcontainer call to the sandbox.
DestroyContainer(t) ==
    /\ t = Destroyer
    /\ dcPc = "idle"
    /\ Len(dcRets) < MaxDestroys
    /\ \E cid \in SbCids :
         /\ dcCid' = cid
         /\ IF IsRootContainer(cid)
            THEN /\ destroyStart(t)
                 /\ dcPc' = "destroy"
            ELSE /\ sbPc[t] = "idle"
                 /\ dcPc' = "call"
                 /\ UNCHANGED sandboxVars
    /\ UNCHANGED <<dcErr, dcRets>>

\* destroyContainer, subcontainer: s.call(boot.ContMgrDestroySubcontainer)
\* fails when the sandbox cannot be reached and may fail in the sandbox.
destroyContainer(t) ==
    /\ t = Destroyer
    /\ dcPc = "call"
    /\ IF CanConnect
       THEN \E err \in {"nil", "err"} : dcErr' = err
       ELSE dcErr' = "err"
    /\ dcPc' = "check"
    /\ UNCHANGED <<sandboxVars, dcCid, dcRets>>

\* The error destroyContainer has returned to DestroyContainer.
destroyContainerErr ==
    IF dcPc = "destroy" THEN dRets[Len(dRets)] ELSE dcErr

\* destroyContainer has returned to DestroyContainer.
destroyContainerReturned(t) ==
    \/ dcPc = "check"
    \/ dcPc = "destroy" /\ sbPc[t] = "idle"

\* A DestroyContainer that returns the error of destroyContainer as it is.
DestroyContainerKeepsError(t) ==
    /\ t = Destroyer
    /\ destroyContainerReturned(t)
    /\ dcErr' = destroyContainerErr
    /\ dcRets' = Append(dcRets, destroyContainerErr)
    /\ dcPc' = "idle"
    /\ UNCHANGED <<sandboxVars, dcCid>>

\* DestroyContainer after destroyContainer: an error is returned if
\* s.IsRunning(), and dropped otherwise.
DestroyContainerReturn(t) ==
    /\ t = Destroyer
    /\ destroyContainerReturned(t)
    /\ dcErr' = destroyContainerErr
    /\ dcRets' = Append(dcRets,
          IF destroyContainerErr # "nil" /\ IsRunning THEN "err" ELSE "nil")
    /\ dcPc' = "idle"
    /\ UNCHANGED <<sandboxVars, dcCid>>

(***************************************************************************)
(* VFS dentries (pkg/sentry/vfs/dentry.go)                                 *)
(***************************************************************************)

\* The dentries, named by their addresses, and the mount namespaces.
Dentries == {1, 2}
Namespaces == {"ns1", "ns2"}
\* The filesystem threads that delete, rename and invalidate.
VfsThreads == {"t1", "t2"}
\* The absent `to` argument of a rename.
NilDentry == 0

NoArgs == [op |-> "none", ns |-> "ns1", d |-> 1, to |-> NilDentry, victim |-> NilDentry]

DentryInit ==
    /\ dMu = [d \in Dentries |-> "free"]
    /\ mountMu = "free"
    /\ dDead = [d \in Dentries |-> FALSE]
    /\ mnt = [ns \in Namespaces |-> [d \in Dentries |-> 0]]
    /\ vPc = [t \in VfsThreads |-> "idle"]
    /\ vArg = [t \in VfsThreads |-> NoArgs]
    /\ vRet = [t \in VfsThreads |-> "none"]
    /\ vFatal = FALSE
    /\ vOps = [t \in VfsThreads |-> 0]
    /\ vRcs = [t \in VfsThreads |-> 0]
    /\ nDecRefs = 0

\* Dentry.isMounted: d.mounts, the number of Mounts whose point is d, is not 0.
MountsOn(d) == mnt["ns1"][d] + mnt["ns2"][d]
isMounted(d) == MountsOn(d) # 0

\* sync.Mutex.Unlock of d.mu by t: unlocking a mutex that is not locked is a
\* fatal error of the Go runtime.
UnlockDentry(t, d) ==
    /\ dMu' = [dMu EXCEPT ![d] = "free"]
    /\ vFatal' = (vFatal \/ dMu[d] = "free")

\* The number of operations started so far.
OpsStarted == vOps["t1"] + vOps["t2"]

\* The start of an operation by an idle thread; vOps bounds the number of
\* operations of one behaviour.
BeginOp(t) == vPc[t] = "idle" /\ ~vFatal /\ OpsStarted < MaxVfsOps

\* A Mount is connected at mount point d in namespace ns: done with
\* vfs.mountMu and d.mu held, on a dentry that is not dead.
MountAt(t) ==
    /\ BeginOp(t)
    /\ mountMu = "free"
    /\ \E ns \in Namespaces, d \in Dentries :
         /\ dMu[d] = "free" /\ ~dDead[d]
         /\ MountsOn(d) < MaxMounts
         /\ mnt' = [mnt EXCEPT ![ns][d] = @ + 1]
         /\ vArg' = [vArg EXCEPT ![t] =
               [op |-> "mount", ns |-> ns, d |-> d, to |-> NilDentry, victim |-> d]]
    /\ vOps' = [vOps EXCEPT ![t] = @ + 1]
    /\ vRet' = [vRet EXCEPT ![t] = "none"]
    /\ UNCHANGED <<dMu, mountMu, dDead, vPc, vFatal, vRcs, nDecRefs>>

\* A PrepareDeleteDentry that does not look at mntns.mountpoints[d].
PrepareDeleteIgnoresMounts(t) ==
    /\ BeginOp(t)
    /\ mountMu = "free"
    /\ vOps' = [vOps EXCEPT ![t] = @ + 1]
    /\ \E ns \in Namespaces, d \in Dentries :
         vArg' = [vArg EXCEPT ![t] =
             [op |-> "delete", ns |-> ns, d |-> d, to |-> NilDentry, victim |-> d]]
    /\ mountMu' = t
    /\ vRet' = [vRet EXCEPT ![t] = "none"]
    /\ vPc' = [vPc EXCEPT ![t] = "pd_lock"]
    /\ UNCHANGED <<dMu, dDead, mnt, vFatal, vRcs, nDecRefs>>

\* PrepareDeleteDentry(mntns, d) up to its test of mntns.mountpoints[d],
\* made with vfs.mountMu held: EBUSY is returned with the lock released.
PrepareDeleteDentry(t) ==
    /\ BeginOp(t)
    /\ mountMu = "free"
    /\ vOps' = [vOps EXCEPT ![t] = @ + 1]
    /\ \E ns \in Namespaces, d \in Dentries :
         /\ vArg' = [vArg EXCEPT ![t] =
               [op |-> "delete", ns |-> ns, d |-> d, to |-> NilDentry, victim |-> d]]
         /\ IF mnt[ns][d] # 0
            THEN /\ vRet' = [vRet EXCEPT ![t] = "EBUSY"]
                 /\ UNCHANGED <<mountMu, vPc>>
            ELSE /\ mountMu' = t
                 /\ vRet' = [vRet EXCEPT ![t] = "none"]
                 /\ vPc' = [vPc EXCEPT ![t] = "pd_lock"]
    /\ UNCHANGED <<dMu, dDead, mnt, vFatal, vRcs, nDecRefs>>

\* A PrepareDeleteDentry that returns nil without d.mu.Lock().
PrepareDeleteSkipsLock(t) ==
    /\ vPc[t] = "pd_lock"
    /\ mountMu' = "free"
    /\ vRet' = [vRet EXCEPT ![t] = "nil"]
    /\ vPc' = [vPc EXCEPT ![t] = "delete_prepared"]
    /\ UNCHANGED <<dMu, dDead, mnt, vArg, vFatal, vOps, vRcs, nDecRefs>>

\* PrepareDeleteDentry: d.mu.Lock(); vfs.mountMu.Unlock(); return nil.
PrepareDeleteDentryLock(t) ==
    /\ vPc[t] = "pd_lock"
    /\ dMu[vArg[t].d] = "free"
    /\ dMu' = [dMu EXCEPT ![vArg[t].d] = t]
    /\ mountMu' = "free"
    /\ vRet' = [vRet EXCEPT ![t] = "nil"]
    /\ vPc' = [vPc EXCEPT ![t] = "delete_prepared"]
    /\ UNCHANGED <<dDead, mnt, vArg, vFatal, vOps, vRcs, nDecRefs>>

\* An AbortDeleteDentry that puts the dentry back in the tree.
AbortDeleteRevives(t) ==
    /\ vPc[t] = "delete_prepared"
    /\ UnlockDentry(t, vArg[t].d)
    /\ dDead' = [dDead EXCEPT ![vArg[t].d] = FALSE]
    /\ vPc' = [vPc EXCEPT ![t] = "idle"]
    /\ UNCHANGED <<mountMu, mnt, vArg, vRet, vOps, vRcs, nDecRefs>>

\* AbortDeleteDentry(d)
AbortDeleteDentry(t) ==
    /\ vPc[t] = "delete_prepared"
    /\ UnlockDentry(t, vArg[t].d)
    /\ vPc' = [vPc EXCEPT ![t] = "idle"]
    /\ UNCHANGED <<mountMu, dDead, mnt, vArg, vRet, vOps, vRcs, nDecRefs>>

\* A CommitDeleteDentry without d.mu.Unlock().
CommitDeleteKeepsLock(t) ==
    /\ vPc[t] = "delete_prepared"
    /\ dDead' = [dDead EXCEPT ![vArg[t].d] = TRUE]
    /\ vPc' = [vPc EXCEPT ![t] =
          IF isMounted(vArg[t].d) THEN "forget" ELSE "idle"]
    /\ UNCHANGED <<dMu, vFatal, mountMu, mnt, vArg, vRet, vOps, vRcs,
                   nDecRefs>>

\* CommitDeleteDentry(ctx, d) up to d.isMounted().
CommitDeleteDentry(t) ==
    /\ vPc[t] = "delete_prepared"
    /\ dDead' = [dDead EXCEPT ![vArg[t].d] = TRUE]
    /\ UnlockDentry(t, vArg[t].d)
    /\ vPc' = [vPc EXCEPT ![t] =
          IF isMounted(vArg[t].d) THEN "forget" ELSE "idle"]
    /\ UNCHANGED <<mountMu, mnt, vArg, vRet, vOps, vRcs, nDecRefs>>

\* InvalidateDentry(ctx, d) up to d.isMounted().
InvalidateDentry(t) ==
    /\ BeginOp(t)
    /\ vOps' = [vOps EXCEPT ![t] = @ + 1]
    /\ \E d \in Dentries :
         /\ dMu[d] = "free"
         /\ dDead' = [dDead EXCEPT ![d] = TRUE]
         /\ vArg' = [vArg EXCEPT ![t] =
               [op |-> "invalidate", ns |-> "ns1", d |-> d, to |-> NilDentry, victim |-> d]]
         /\ vPc' = [vPc EXCEPT ![t] = IF isMounted(d) THEN "forget" ELSE "idle"]
    /\ vRet' = [vRet EXCEPT ![t] = "none"]
    /\ vRcs' = [vRcs EXCEPT ![t] = 0]
    /\ UNCHANGED <<dMu, mountMu, mnt, vFatal, nDecRefs>>

\* The skipDecRef argument of the forgetDeadMountpoint call thread t makes:
\* true from InvalidateDentry, false from the two commits.
skipDecRef(t) == vArg[t].op = "invalidate"

\* A forgetDeadMountpoint that drops the references whatever skipDecRef is.
forgetDeadMountpointAlwaysDecRef(t) ==
    /\ vPc[t] = "forget"
    /\ mountMu = "free"
    /\ mnt' = [ns \in Namespaces |-> [mnt[ns] EXCEPT ![vArg[t].victim] = 0]]
    /\ vRcs' = [vRcs EXCEPT ![t] = MountsOn(vArg[t].victim)]
    /\ vPc' = [vPc EXCEPT ![t] = "decref"]
    /\ UNCHANGED <<dMu, mountMu, dDead, vArg, vRet, vFatal, vOps, nDecRefs>>

\* forgetDeadMountpoint(ctx, d, skipDecRef) up to the test of skipDecRef:
\* with vfs.mountMu held, every mount in vfs.mountpoints[d] is unmounted and
\* its references are collected in rcs; with skipDecRef rcs is returned.
forgetDeadMountpoint(t) ==
    /\ vPc[t] = "forget"
    /\ mountMu = "free"
    /\ mnt' = [ns \in Namespaces |-> [mnt[ns] EXCEPT ![vArg[t].victim] = 0]]
    /\ vRcs' = [vRcs EXCEPT ![t] = MountsOn(vArg[t].victim)]
    /\ vPc' = [vPc EXCEPT ![t] = IF skipDecRef(t) THEN "idle" ELSE "decref"]
    /\ UNCHANGED <<dMu, mountMu, dDead, vArg, vRet, vFatal, vOps, nDecRefs>>

\* forgetDeadMountpoint, skipDecRef false: rc.DecRef(ctx) for every rc of
\* rcs; return nil.
forgetDeadMountpointDecRef(t) ==
    /\ vPc[t] = "decref"
    /\ nDecRefs' = nDecRefs + vRcs[t]
    /\ vRcs' = [vRcs EXCEPT ![t] = 0]
    /\ vPc' = [vPc EXCEPT ![t] = "idle"]
    /\ UNCHANGED <<dMu, mountMu, dDead, mnt, vArg, vRet, vFatal, vOps>>

\* A PrepareRenameDentry that goes on to from.mu.Lock() without
\* to.mu.Lock().
PrepareRenameFromFirst(t) ==
    /\ BeginOp(t)
    /\ mountMu = "free"
    /\ vOps' = [vOps EXCEPT ![t] = @ + 1]
    /\ \E ns \in Namespaces, from \in Dentries, to \in Dentries \cup {NilDentry} :
         /\ from # to
         /\ vArg' = [vArg EXCEPT ![t] =
               [op |-> "rename", ns |-> ns, d |-> from, to |-> to, victim |-> to]]
         /\ IF mnt[ns][from] # 0 \/ (to # NilDentry /\ mnt[ns][to] # 0)
            THEN /\ vRet' = [vRet EXCEPT ![t] = "EBUSY"]
                 /\ UNCHANGED <<mountMu, vPc>>
            ELSE /\ mountMu' = t
                 /\ vRet' = [vRet EXCEPT ![t] = "none"]
                 /\ vPc' = [vPc EXCEPT ![t] = "pr_lock_from"]
    /\ UNCHANGED <<dMu, dDead, mnt, vFatal, vRcs, nDecRefs>>

\* PrepareRenameDentry(mntns, from, to) up to its tests of
\* mntns.mountpoints, made with vfs.mountMu held.
PrepareRenameDentry(t) ==
    /\ BeginOp(t)
    /\ mountMu = "free"
    /\ vOps' = [vOps EXCEPT ![t] = @ + 1]
    /\ \E ns \in Namespaces, from \in Dentries, to \in Dentries \cup {NilDentry} :
         /\ from # to
         /\ vArg' = [vArg EXCEPT ![t] =
               [op |-> "rename", ns |-> ns, d |-> from, to |-> to, victim |-> to]]
         /\ IF mnt[ns][from] # 0 \/ (to # NilDentry /\ mnt[ns][to] # 0)
            THEN /\ vRet' = [vRet EXCEPT ![t] = "EBUSY"]
                 /\ UNCHANGED <<mountMu, vPc>>
            ELSE /\ mountMu' = t
                 /\ vRet' = [vRet EXCEPT ![t] = "none"]
                 /\ vPc' = [vPc EXCEPT ![t] =
                       IF to # NilDentry THEN "pr_lock_to" ELSE "pr_lock_from"]
    /\ UNCHANGED <<dMu, dDead, mnt, vFatal, vRcs, nDecRefs>>

\* A PrepareRenameDentry that gives up vfs.mountMu once it has to.mu.
PrepareRenameLockToDropsMountMu(t) ==
    /\ vPc[t] = "pr_lock_to"
    /\ dMu[vArg[t].to] = "free"
    /\ dMu' = [dMu EXCEPT ![vArg[t].to] = t]
    /\ mountMu' = "free"
    /\ vPc' = [vPc EXCEPT ![t] = "pr_lock_from"]
    /\ UNCHANGED <<dDead, mnt, vArg, vRet, vFatal, vOps, vRcs, nDecRefs>>

\* PrepareRenameDentry: to.mu.Lock()
PrepareRenameLockTo(t) ==
    /\ vPc[t] = "pr_lock_to"
    /\ dMu[vArg[t].to] = "free"
    /\ dMu' = [dMu EXCEPT ![vArg[t].to] = t]
    /\ vPc' = [vPc EXCEPT ![t] = "pr_lock_from"]
    /\ UNCHANGED <<mountMu, dDead, mnt, vArg, vRet, vFatal, vOps, vRcs,
                   nDecRefs>>

\* PrepareRenameDentry: from.mu.Lock(); vfs.mountMu.Unlock(); return nil.
PrepareRenameLockFrom(t) ==
    /\ vPc[t] = "pr_lock_from"
    /\ dMu[vArg[t].d] = "free"
    /\ dMu' = [dMu EXCEPT ![vArg[t].d] = t]
    /\ mountMu' = "free"
    /\ vRet' = [vRet EXCEPT ![t] = "nil"]
    /\ vPc' = [vPc EXCEPT ![t] = "rename_prepared"]
    /\ UNCHANGED <<dDead, mnt, vArg, vFatal, vOps, vRcs, nDecRefs>>

\* AbortRenameDentry(from, to) and CommitRenameExchangeDentry(from, to):
\* from.mu.Unlock(), then to.mu.Unlock() (Abort: if to is not nil).
AbortRenameDentry(t) ==
    /\ vPc[t] = "rename_prepared"
    /\ UnlockDentry(t, vArg[t].d)
    /\ vPc' = [vPc EXCEPT ![t] =
          IF vArg[t].to # NilDentry THEN "unlock_to" ELSE "idle"]
    /\ UNCHANGED <<mountMu, dDead, mnt, vArg, vRet, vOps, vRcs, nDecRefs>>

CommitRenameExchangeDentry(t) ==
    /\ vPc[t] = "rename_prepared"
    /\ vArg[t].to # NilDentry
    /\ UnlockDentry(t, vArg[t].d)
    /\ vPc' = [vPc EXCEPT ![t] = "unlock_to"]
    /\ UNCHANGED <<mountMu, dDead, mnt, vArg, vRet, vOps, vRcs, nDecRefs>>

RenameUnlockTo(t) ==
    /\ vPc[t] = "unlock_to"
    /\ UnlockDentry(t, vArg[t].to)
    /\ vPc' = [vPc EXCEPT ![t] = "idle"]
    /\ UNCHANGED <<mountMu, dDead, mnt, vArg, vRet, vOps, vRcs, nDecRefs>>

\* CommitRenameReplaceDentry(ctx, from, to): from.mu.Unlock()
CommitRenameReplaceDentry(t) ==
    /\ vPc[t] = "rename_prepared"
    /\ UnlockDentry(t, vArg[t].d)
    /\ vPc' = [vPc EXCEPT ![t] =
          IF vArg[t].to # NilDentry THEN "replace_to" ELSE "idle"]
    /\ UNCHANGED <<mountMu, dDead, mnt, vArg, vRet, vOps, vRcs, nDecRefs>>

\* A CommitRenameReplaceDentry that goes on to forgetDeadMountpoint with
\* to.mu still locked.
CommitRenameReplaceToKeepsLock(t) ==
    /\ vPc[t] = "replace_to"
    /\ dDead' = [dDead EXCEPT ![vArg[t].to] = TRUE]
    /\ vPc' = [vPc EXCEPT ![t] =
          IF isMounted(vArg[t].to) THEN "forget" ELSE "idle"]
    /\ UNCHANGED <<dMu, vFatal, mountMu, mnt, vArg, vRet, vOps, vRcs, nDecRefs>>

\* CommitRenameReplaceDentry, to is not nil: to.dead = true; to.mu.Unlock();
\* to.isMounted().
CommitRenameReplaceTo(t) ==
    /\ vPc[t] = "replace_to"
    /\ dDead' = [dDead EXCEPT ![vArg[t].to] = TRUE]
    /\ UnlockDentry(t, vArg[t].to)
    /\ vPc' = [vPc EXCEPT ![t] =
          IF isMounted(vArg[t].to) THEN "forget" ELSE "idle"]
    /\ UNCHANGED <<mountMu, mnt, vArg, vRet, vOps, vRcs, nDecRefs>>

\* The state the dentry variables keep in the specifications of the other
\* subsystems.
DentryIdle == DentryInit

(***************************************************************************)
(* runsc/boot: the Loader, its containerManager and the sentry Kernel.     *)
(* pkg/sentry/kernel is not part of the sources: Pause, Unpause,           *)
(* SendContainerSignal, Start, task creation and the loading of a state    *)
(* file are modelled from the specification's description of them.         *)
(* In SpecLoader the client of the control server follows the boot         *)
(* protocol: it issues one start operation (StartRoot or Restore), and     *)
(* starts subcontainers only in a sandbox whose kernel has been started.   *)
(* SpecStart lifts the first restriction.                                  *)
(***************************************************************************)

RpcThreads == {"r1", "r2"}
MainThread == "main"
LoaderCids == {"root", "sub"}
TaskIds == 1..MaxTasks
NilTG == 0
NoTask == [st |-> "none", cid |-> "root", sig |-> FALSE]
\* A container id with no entry in Loader.processes.
NoProcess == [present |-> FALSE, tg |-> NilTG, execs |-> {}]
NoRpc == [op |-> "none", cid |-> "root", pid |-> 0, mode |-> "none",
          files |-> 0, size |-> 0]
\* The pid argument of signal: negative, 0 (the container's init process)
\* or the id of a process.
SignalPids == {-1, 0, 1}
SignalDeliveryModes ==
    {"DeliverToProcess", "DeliverToAllProcesses", "DeliverToForegroundProcessGroup"}

\* The Loader after New() and the creation of the control server: the root
\* container has an entry in processes with no thread group, and the boot
\* goroutine is about to call WaitForStartSignal.
LoaderInit ==
    /\ lMu = "free"
    /\ processes = [c \in LoaderCids |->
          [present |-> (c = "root"), tg |-> NilTG, execs |-> {}]]
    /\ lRestore = FALSE
    /\ confDisableSeccomp \in BOOLEAN
    /\ confNetworkHost \in BOOLEAN
    /\ ckStale = [r \in RpcThreads |-> FALSE]
    /\ lK = "boot"
    /\ nSaved = 0
    /\ seccomp = "none"
    /\ kPaused = 0
    /\ kStarted = FALSE
    /\ kLoaded = FALSE
    /\ kGlobalInit = NilTG
    /\ tasks = [i \in TaskIds |-> NoTask]
    /\ startIssued = FALSE
    /\ mPc = "wait_start"
    /\ mErr = "nil"
    /\ rPc = [r \in RpcThreads |-> "idle"]
    /\ rArg = [r \in RpcThreads |-> NoRpc]
    /\ rRet = [r \in RpcThreads |-> "none"]
    /\ sSnap = [r \in RpcThreads |-> {}]
    /\ nRpcs = 0

\* ---- the Kernel ----

FreeTasks == {i \in TaskIds : tasks[i].st = "none"}
NextTask == CHOOSE i \in FreeTasks : \A j \in FreeTasks : i <= j
TasksOf(cid) == {i \in TaskIds : tasks[i].st = "alive" /\ tasks[i].cid = cid}

\* A task of container cid is added to the kernel's task set. While the
\* kernel is paused no task can be spawned.
NewTask(cid) ==
    /\ kPaused = 0
    /\ FreeTasks # {}
    /\ tasks' = [tasks EXCEPT ![NextTask] =
          [st |-> "alive", cid |-> cid, sig |-> FALSE]]

\* A running application task creates a task in its own container (clone).
\* Tasks run only in a started kernel that is not paused, and a task with a
\* pending kill does not return to the application.
TaskClone ==
    /\ kStarted
    /\ \E p \in TaskIds :
         /\ tasks[p].st = "alive" /\ ~tasks[p].sig
         /\ NewTask(tasks[p].cid)
    /\ UNCHANGED <<lMu, processes, lRestore, confDisableSeccomp, confNetworkHost, ckStale, lK, nSaved, seccomp,
                   kPaused, kStarted, kLoaded, kGlobalInit, startIssued,
                   mPc, mErr, rPc, rArg, rRet, sSnap, nRpcs>>

\* ---- the boot goroutine: WaitForStartSignal, then Loader.Run ----

\* installSeccompFilters returning nil: filter.Install(opts) has succeeded,
\* or DisableSeccomp is set and only a report was made.
installSeccompFilters ==
    seccomp' = IF confDisableSeccomp THEN "reported" ELSE "installed"

\* An error return of an RPC handler.
RpcReturn(r, err) ==
    /\ rPc' = [rPc EXCEPT ![r] = "idle"]
    /\ rRet' = [rRet EXCEPT ![r] = err]

\* The start of an RPC handler on an idle server goroutine.
BeginRpc(r) == rPc[r] = "idle" /\ nRpcs < MaxRpcs /\ nRpcs' = nRpcs + 1

\* containerManager.StartRoot is called.
StartRoot(r) ==
    /\ BeginRpc(r)
    /\ startIssued' = TRUE
    /\ rArg' = [rArg EXCEPT ![r] = [NoRpc EXCEPT !.op = "StartRoot"]]
    /\ rPc' = [rPc EXCEPT ![r] = "start_send"]
    /\ UNCHANGED <<lMu, processes, lRestore, confDisableSeccomp, confNetworkHost, ckStale, lK, nSaved, seccomp,
                   kPaused, kStarted, kLoaded, kGlobalInit, tasks,
                   mPc, mErr, rRet, sSnap>>

\* The StartRoot of a client that follows the boot protocol: the one start
\* operation of the sandbox.
ClientStartRoot(r) == ~startIssued /\ StartRoot(r)

\* cm.startChan <- struct{}{} meets <-l.ctrl.manager.startChan of
\* WaitForStartSignal: the channel is unbuffered.
WaitForStartSignal(r) ==
    /\ rPc[r] = "start_send"
    /\ mPc = "wait_start"
    /\ rPc' = [rPc EXCEPT ![r] = "start_recv"]
    /\ mPc' = "run_lock"
    /\ UNCHANGED <<lMu, processes, lRestore, confDisableSeccomp, confNetworkHost, ckStale, lK, nSaved, seccomp,
                   kPaused, kStarted, kLoaded, kGlobalInit, tasks,
                   startIssued, mErr, rArg, rRet, sSnap, nRpcs>>

\* An error return of Loader.run: the deferred l.mu.Unlock().
runFails ==
    /\ lMu' = "free"
    /\ mErr' = "err"
    /\ mPc' = "send_result"

\* Loader.run: with host networking the configuration of the host stack,
\* which may fail; then l.mu.Lock(), the lookup of the root container in
\* l.processes, and the test of l.restore.
run ==
    /\ mPc = "run_lock"
    /\ \/ /\ confNetworkHost
          /\ mErr' = "err"
          /\ mPc' = "send_result"
          /\ UNCHANGED lMu
       \/ /\ lMu = "free"
          /\ IF ~processes["root"].present
             THEN /\ mErr' = "err"
                  /\ mPc' = "send_result"
                  /\ UNCHANGED lMu
             ELSE /\ lMu' = MainThread
                  /\ mErr' = "nil"
                  /\ mPc' = IF lRestore THEN "run_start" ELSE "run_seccomp"
    /\ UNCHANGED <<processes, lRestore, confDisableSeccomp, confNetworkHost, ckStale, lK, nSaved, seccomp,
                   kPaused, kStarted, kLoaded, kGlobalInit, tasks,
                   startIssued, rPc, rArg, rRet, sSnap, nRpcs>>

\* A Loader.run that goes on to create the root container's process with
\* no call of installSeccompFilters.
runSkipsSeccompFilters ==
    /\ mPc = "run_seccomp"
    /\ mPc' = "run_create"
    /\ UNCHANGED <<lMu, mErr, seccomp, processes, lRestore, confDisableSeccomp, confNetworkHost, ckStale, lK, nSaved,
                   kPaused, kStarted, kLoaded, kGlobalInit, tasks,
                   startIssued, rPc, rArg, rRet, sSnap, nRpcs>>

\* Loader.run, not restoring: installSeccompFilters, which fails when
\* filter.Install does.
runInstallSeccompFilters ==
    /\ mPc = "run_seccomp"
    /\ \/ /\ installSeccompFilters
          /\ mPc' = "run_create"
          /\ UNCHANGED <<lMu, mErr>>
       \/ /\ ~confDisableSeccomp
          /\ runFails
          /\ UNCHANGED seccomp
    /\ UNCHANGED <<processes, lRestore, confDisableSeccomp, confNetworkHost, ckStale, lK, nSaved,
                   kPaused, kStarted, kLoaded, kGlobalInit, tasks,
                   startIssued, rPc, rArg, rRet, sSnap, nRpcs>>

\* Loader.run, not restoring: createContainerProcess(true, l.sandboxID,
\* &l.root) creates the init task of the root container, or fails.
runCreateContainerProcess ==
    /\ mPc = "run_create"
    /\ \/ /\ NewTask("root")
          /\ kGlobalInit' = NextTask
          /\ mPc' = "run_start"
          /\ UNCHANGED <<lMu, mErr>>
       \/ /\ runFails
          /\ UNCHANGED <<tasks, kGlobalInit>>
    /\ UNCHANGED <<processes, lRestore, confDisableSeccomp, confNetworkHost, ckStale, lK, nSaved, seccomp,
                   kPaused, kStarted, kLoaded, startIssued,
                   rPc, rArg, rRet, sSnap, nRpcs>>

\* Loader.run: ep.tg = l.k.GlobalInit(), l.watchdog.Start(),
\* return l.k.Start() and the deferred l.mu.Unlock().
runStart ==
    /\ mPc = "run_start"
    /\ processes' = [processes EXCEPT !["root"].tg = kGlobalInit]
    /\ \/ kStarted' = TRUE /\ mErr' = "nil"
       \/ kStarted' = kStarted /\ mErr' = "err"
    /\ lMu' = "free"
    /\ mPc' = "send_result"
    /\ UNCHANGED <<lRestore, confDisableSeccomp, confNetworkHost, ckStale, lK, nSaved, seccomp, kPaused, kLoaded,
                   kGlobalInit, tasks, startIssued, rPc, rArg, rRet, sSnap,
                   nRpcs>>

\* A Loader.Run that returns what Loader.run returned without sending it.
RunKeepsResult(r) ==
    /\ mPc = "send_result"
    /\ rPc[r] = "start_recv"
    /\ mPc' = IF mErr = "nil" THEN "wait_exit" ELSE "exited"
    /\ UNCHANGED <<lMu, processes, lRestore, confDisableSeccomp, confNetworkHost, ckStale, lK, nSaved, seccomp,
                   kPaused, kStarted, kLoaded, kGlobalInit, tasks,
                   startIssued, mErr, rPc, rArg, rRet, sSnap, nRpcs>>

\* Loader.Run: l.ctrl.manager.startResultChan <- err meets
\* <-cm.startResultChan of StartRoot or Restore, which returns.
Run(r) ==
    /\ mPc = "send_result"
    /\ rPc[r] = "start_recv"
    /\ RpcReturn(r, mErr)
    /\ mPc' = IF mErr = "nil" THEN "wait_exit" ELSE "exited"
    /\ UNCHANGED <<lMu, processes, lRestore, confDisableSeccomp, confNetworkHost, ckStale, lK, nSaved, seccomp,
                   kPaused, kStarted, kLoaded, kGlobalInit, tasks,
                   startIssued, mErr, rArg, sSnap, nRpcs>>

\* ---- containerManager.Restore ----

\* A Restore that takes any number of files.
RestoreAnyFiles(r) ==
    /\ BeginRpc(r)
    /\ startIssued' = TRUE
    /\ \E numFiles \in 0..MaxFiles, size \in 0..1 :
         rArg' = [rArg EXCEPT ![r] =
             [NoRpc EXCEPT !.op = "Restore", !.files = numFiles, !.size = size]]
    /\ kPaused' = kPaused + 1
    /\ rPc' = [rPc EXCEPT ![r] = "rs_build"]
    /\ rRet' = [rRet EXCEPT ![r] = "none"]
    /\ UNCHANGED <<lMu, processes, lRestore, confDisableSeccomp, confNetworkHost, ckStale, lK, nSaved, seccomp,
                   kStarted, kLoaded, kGlobalInit, tasks, mPc, mErr, sSnap>>

\* Restore up to cm.l.k.Pause(): the number of files passed must be 1 or 2,
\* and with 2 the dup of the device file may fail. size is the length of
\* the state file, o.Files[0], empty (0) or not.
Restore(r) ==
    /\ BeginRpc(r)
    /\ startIssued' = TRUE
    /\ \E numFiles \in 0..MaxFiles, size \in 0..1, dupFails \in BOOLEAN :
         /\ rArg' = [rArg EXCEPT ![r] =
               [NoRpc EXCEPT !.op = "Restore", !.files = numFiles, !.size = size]]
         /\ IF numFiles \in {1, 2} /\ ~(numFiles = 2 /\ dupFails)
            THEN /\ kPaused' = kPaused + 1
                 /\ rPc' = [rPc EXCEPT ![r] = "rs_build"]
                 /\ rRet' = [rRet EXCEPT ![r] = "none"]
            ELSE /\ rRet' = [rRet EXCEPT ![r] = "err"]
                 /\ UNCHANGED <<kPaused, rPc>>
    /\ UNCHANGED <<lMu, processes, lRestore, confDisableSeccomp, confNetworkHost, ckStale, lK, nSaved, seccomp,
                   kStarted, kLoaded, kGlobalInit, tasks, mPc, mErr, sSnap>>

\* The Restore of a client that follows the boot protocol: the one start
\* operation of the sandbox.
ClientRestore(r) == ~startIssued /\ Restore(r)

\* Restore: createPlatform and createMemoryFile, which may fail, then
\* cm.l.k = k: the loader's kernel is a new one, with no task, not started
\* and not paused.
RestoreNewKernel(r) ==
    /\ rPc[r] = "rs_build"
    /\ \/ /\ kPaused' = 0
          /\ ckStale' = [t \in RpcThreads |-> TRUE]
          /\ lK' = "restored"
          /\ kStarted' = FALSE
          /\ kLoaded' = FALSE
          /\ kGlobalInit' = NilTG
          /\ tasks' = [i \in TaskIds |-> NoTask]
          /\ rPc' = [rPc EXCEPT ![r] = "rs_config"]
          /\ UNCHANGED rRet
       \/ /\ RpcReturn(r, "err")
          /\ UNCHANGED <<kPaused, ckStale, lK, kStarted, kLoaded, kGlobalInit,
                       tasks>>
    /\ UNCHANGED <<lMu, processes, lRestore, confDisableSeccomp, confNetworkHost, nSaved, seccomp,
                   startIssued, mPc, mErr, rArg, sSnap, nRpcs>>

\* A Restore that does not look at the size of the state file.
RestoreConfigureAnySize(r) ==
    /\ rPc[r] = "rs_config"
    /\ \/ rPc' = [rPc EXCEPT ![r] = "rs_seccomp"] /\ UNCHANGED rRet
       \/ RpcReturn(r, "err")
    /\ UNCHANGED <<lMu, processes, lRestore, confDisableSeccomp, confNetworkHost, ckStale, lK, nSaved, seccomp,
                   kPaused, kStarted, kLoaded, kGlobalInit, tasks,
                   startIssued, mPc, mErr, rArg, sSnap, nRpcs>>

\* Restore: configureRestore and specFile.Stat(), which may fail, and the
\* test of the file's size: an empty file ends the call with an error.
RestoreConfigure(r) ==
    /\ rPc[r] = "rs_config"
    /\ \/ /\ rArg[r].size # 0
          /\ rPc' = [rPc EXCEPT ![r] = "rs_seccomp"]
          /\ UNCHANGED rRet
       \/ RpcReturn(r, "err")
    /\ UNCHANGED <<lMu, processes, lRestore, confDisableSeccomp, confNetworkHost, ckStale, lK, nSaved, seccomp,
                   kPaused, kStarted, kLoaded, kGlobalInit, tasks,
                   startIssued, mPc, mErr, rArg, sSnap, nRpcs>>

\* A Restore that goes on to the load without installing the filters.
RestoreSkipsSeccompFilters(r) ==
    /\ rPc[r] = "rs_seccomp"
    /\ rPc' = [rPc EXCEPT ![r] = "rs_load"]
    /\ UNCHANGED <<lMu, processes, lRestore, confDisableSeccomp, confNetworkHost, ckStale, lK, nSaved, seccomp,
                   kPaused, kStarted, kLoaded, kGlobalInit, tasks,
                   startIssued, mPc, mErr, rArg, rRet, sSnap, nRpcs>>

\* Restore: cm.l.installSeccompFilters(), before the state file is parsed.
RestoreInstallSeccompFilters(r) ==
    /\ rPc[r] = "rs_seccomp"
    /\ \/ /\ installSeccompFilters
          /\ rPc' = [rPc EXCEPT ![r] = "rs_load"]
          /\ UNCHANGED rRet
       \/ /\ ~confDisableSeccomp
          /\ RpcReturn(r, "err")
          /\ UNCHANGED seccomp
    /\ UNCHANGED <<lMu, processes, lRestore, confDisableSeccomp, confNetworkHost, ckStale, lK, nSaved,
                   kPaused, kStarted, kLoaded, kGlobalInit, tasks,
                   startIssued, mPc, mErr, rArg, sSnap, nRpcs>>

\* Restore: loadOpts.Load fills the new kernel with the saved tasks: the
\* init task of the root container and, possibly, a second task of it.
RestoreLoad(r) ==
    /\ rPc[r] = "rs_load"
    /\ \/ /\ \E n \in 1..2 :
               tasks' = [i \in TaskIds |->
                   IF i <= n
                   THEN [st |-> "alive", cid |-> "root", sig |-> FALSE]
                   ELSE NoTask]
          /\ kGlobalInit' = 1
          /\ kLoaded' = TRUE
          /\ rPc' = [rPc EXCEPT ![r] = "rs_fields"]
          /\ UNCHANGED rRet
       \/ /\ RpcReturn(r, "err")
          /\ UNCHANGED <<tasks, kGlobalInit, kLoaded>>
    /\ UNCHANGED <<lMu, processes, lRestore, confDisableSeccomp, confNetworkHost, ckStale, lK, nSaved, seccomp,
                   kPaused, kStarted, startIssued, mPc, mErr, rArg, sSnap,
                   nRpcs>>

\* Restore: cm.l.k = k, cm.l.watchdog = dog, cm.l.restore = true.
RestoreFields(r) ==
    /\ rPc[r] = "rs_fields"
    /\ lRestore' = TRUE
    /\ rPc' = [rPc EXCEPT ![r] = "rs_procs"]
    /\ UNCHANGED <<lMu, processes, confDisableSeccomp, confNetworkHost, ckStale, lK, nSaved, seccomp,
                   kPaused, kStarted, kLoaded, kGlobalInit, tasks,
                   startIssued, mPc, mErr, rArg, rRet, sSnap, nRpcs>>

\* A Restore that sets the root container's entry and keeps the others.
RestoreKeepsProcesses(r) ==
    /\ rPc[r] = "rs_procs"
    /\ lMu = "free"
    /\ processes' = [processes EXCEPT !["root"] =
          [present |-> TRUE, tg |-> kGlobalInit, execs |-> {}]]
    /\ rPc' = [rPc EXCEPT ![r] = "start_send"]
    /\ UNCHANGED <<lMu, lRestore, confDisableSeccomp, confNetworkHost, ckStale, lK, nSaved, seccomp,
                   kPaused, kStarted, kLoaded, kGlobalInit, tasks,
                   startIssued, mPc, mErr, rArg, rRet, sSnap, nRpcs>>

\* Restore: with l.mu held, l.processes becomes a map with the root
\* container alone, its thread group the loaded kernel's GlobalInit.
RestoreProcesses(r) ==
    /\ rPc[r] = "rs_procs"
    /\ lMu = "free"
    /\ processes' = [c \in LoaderCids |->
          IF c = "root" THEN [present |-> TRUE, tg |-> kGlobalInit, execs |-> {}]
                        ELSE NoProcess]
    /\ rPc' = [rPc EXCEPT ![r] = "start_send"]
    /\ UNCHANGED <<lMu, lRestore, confDisableSeccomp, confNetworkHost, ckStale, lK, nSaved, seccomp,
                   kPaused, kStarted, kLoaded, kGlobalInit, tasks,
                   startIssued, mPc, mErr, rArg, rRet, sSnap, nRpcs>>

\* ---- containerManager.Checkpoint ----

\* A Checkpoint that saves whatever the network configuration is.
CheckpointIgnoresNetwork(r) ==
    /\ BeginRpc(r)
    /\ rArg' = [rArg EXCEPT ![r] = [NoRpc EXCEPT !.op = "Checkpoint"]]
    /\ kPaused' = kPaused + 1
    /\ ckStale' = [ckStale EXCEPT ![r] = FALSE]
    /\ rRet' = [rRet EXCEPT ![r] = "none"]
    /\ rPc' = [rPc EXCEPT ![r] = "ck_save"]
    /\ UNCHANGED <<lMu, processes, lRestore, confDisableSeccomp, confNetworkHost, lK, nSaved, seccomp,
                   kStarted, kLoaded, kGlobalInit, tasks, startIssued,
                   mPc, mErr, sSnap>>

\* Checkpoint: refused with host networking; otherwise state.Save(o, nil)
\* begins, by pausing the kernel.
Checkpoint(r) ==
    /\ BeginRpc(r)
    /\ rArg' = [rArg EXCEPT ![r] = [NoRpc EXCEPT !.op = "Checkpoint"]]
    /\ IF confNetworkHost
       THEN /\ rRet' = [rRet EXCEPT ![r] = "err"]
            /\ UNCHANGED <<kPaused, rPc, ckStale>>
       ELSE /\ kPaused' = kPaused + 1
            /\ ckStale' = [ckStale EXCEPT ![r] = FALSE]
            /\ rRet' = [rRet EXCEPT ![r] = "none"]
            /\ rPc' = [rPc EXCEPT ![r] = "ck_save"]
    /\ UNCHANGED <<lMu, processes, lRestore, confDisableSeccomp, confNetworkHost, lK, nSaved, seccomp,
                   kStarted, kLoaded, kGlobalInit, tasks, startIssued,
                   mPc, mErr, sSnap>>

\* state.Save: the kernel's object graph is written to the sink, or the
\* save fails.
StateSave(r) ==
    /\ rPc[r] = "ck_save"
    /\ \/ nSaved' = nSaved + 1 /\ rRet' = [rRet EXCEPT ![r] = "nil"]
       \/ nSaved' = nSaved /\ rRet' = [rRet EXCEPT ![r] = "err"]
    /\ rPc' = [rPc EXCEPT ![r] = "ck_unpause"]
    /\ UNCHANGED <<lMu, processes, lRestore, confDisableSeccomp, confNetworkHost, ckStale, lK, seccomp,
                   kPaused, kStarted, kLoaded, kGlobalInit, tasks, startIssued,
                   mPc, mErr, rArg, sSnap, nRpcs>>

\* state.Save: the kernel it was given is unpaused whether the save failed
\* or not, and Checkpoint returns the save's error.  That kernel is the one
\* Checkpoint read from cm.l.k; a Restore may have replaced l.k since.
StateSaveUnpause(r) ==
    /\ rPc[r] = "ck_unpause"
    /\ kPaused' = IF ckStale[r] THEN kPaused ELSE kPaused - 1
    /\ rPc' = [rPc EXCEPT ![r] = "idle"]
    /\ UNCHANGED <<lMu, processes, lRestore, confDisableSeccomp, confNetworkHost, ckStale, lK, nSaved, seccomp,
                   kStarted, kLoaded, kGlobalInit, tasks, startIssued,
                   mPc, mErr, rArg, rRet, sSnap, nRpcs>>

\* ---- subcontainers and exec ----

\* A createSubcontainer that does not look for an entry of cid.
createSubcontainerOverwrites(r) ==
    /\ BeginRpc(r)
    /\ lMu = "free"
    /\ \E cid \in LoaderCids \ {"root"} :
         /\ rArg' = [rArg EXCEPT ![r] =
               [NoRpc EXCEPT !.op = "CreateSubcontainer", !.cid = cid]]
         /\ rRet' = [rRet EXCEPT ![r] = "nil"]
         /\ processes' = [processes EXCEPT ![cid] =
               [present |-> TRUE, tg |-> NilTG, execs |-> {}]]
    /\ UNCHANGED <<lMu, lRestore, confDisableSeccomp, confNetworkHost, ckStale, lK, nSaved, seccomp,
                   kPaused, kStarted, kLoaded, kGlobalInit, tasks,
                   startIssued, mPc, mErr, rPc, sSnap>>

\* Loader.createSubcontainer(cid, tty): with l.mu held, an error if cid has
\* an entry in l.processes, else the entry is added.
createSubcontainer(r) ==
    /\ BeginRpc(r)
    /\ lMu = "free"
    /\ \E cid \in LoaderCids \ {"root"} :
         /\ rArg' = [rArg EXCEPT ![r] =
               [NoRpc EXCEPT !.op = "CreateSubcontainer", !.cid = cid]]
         /\ IF processes[cid].present
            THEN /\ rRet' = [rRet EXCEPT ![r] = "err"]
                 /\ UNCHANGED processes
            ELSE /\ rRet' = [rRet EXCEPT ![r] = "nil"]
                 /\ processes' = [processes EXCEPT ![cid] =
                       [present |-> TRUE, tg |-> NilTG, execs |-> {}]]
    /\ UNCHANGED <<lMu, lRestore, confDisableSeccomp, confNetworkHost, ckStale, lK, nSaved, seccomp,
                   kPaused, kStarted, kLoaded, kGlobalInit, tasks,
                   startIssued, mPc, mErr, rPc, sSnap>>

\* Loader.startSubcontainer up to createContainerProcess: l.mu.Lock() and
\* the lookup of the container in l.processes.
startSubcontainer(r) ==
    /\ BeginRpc(r)
    /\ kStarted
    /\ lMu = "free"
    /\ \E cid \in LoaderCids \ {"root"} :
         /\ rArg' = [rArg EXCEPT ![r] =
               [NoRpc EXCEPT !.op = "StartSubcontainer", !.cid = cid]]
         /\ IF ~processes[cid].present
            THEN /\ rRet' = [rRet EXCEPT ![r] = "err"]
                 /\ UNCHANGED <<lMu, rPc>>
            ELSE /\ lMu' = r
                 /\ rRet' = [rRet EXCEPT ![r] = "none"]
                 /\ rPc' = [rPc EXCEPT ![r] = "ss_create"]
    /\ UNCHANGED <<processes, lRestore, confDisableSeccomp, confNetworkHost, ckStale, lK, nSaved, seccomp,
                   kPaused, kStarted, kLoaded, kGlobalInit, tasks,
                   startIssued, mPc, mErr, sSnap>>

\* Loader.startSubcontainer: ep.tg, ep.tty, err = createContainerProcess,
\* l.k.StartProcess(ep.tg), and the deferred l.mu.Unlock().
\* createContainerProcess may fail before or after l.k.CreateProcess, and
\* ep.tg is nil after either failure.
startSubcontainerCreate(r) ==
    /\ rPc[r] = "ss_create"
    /\ \/ /\ NewTask(rArg[r].cid)
          /\ processes' = [processes EXCEPT ![rArg[r].cid].tg = NextTask]
          /\ RpcReturn(r, "nil")
       \/ /\ processes' = [processes EXCEPT ![rArg[r].cid].tg = NilTG]
          /\ RpcReturn(r, "err")
          /\ \/ UNCHANGED tasks
             \/ NewTask(rArg[r].cid)
    /\ lMu' = "free"
    /\ UNCHANGED <<lRestore, confDisableSeccomp, confNetworkHost, ckStale, lK, nSaved, seccomp,
                   kPaused, kStarted, kLoaded, kGlobalInit,
                   startIssued, mPc, mErr, rArg, sSnap, nRpcs>>

\* Loader.executeAsync up to control.ExecAsync: l.mu.Lock() and
\* tryThreadGroupFromIDLocked; the container must exist and have started.
executeAsync(r) ==
    /\ BeginRpc(r)
    /\ lMu = "free"
    /\ \E cid \in LoaderCids :
         /\ rArg' = [rArg EXCEPT ![r] =
               [NoRpc EXCEPT !.op = "ExecuteAsync", !.cid = cid]]
         /\ IF ~processes[cid].present \/ processes[cid].tg = NilTG
            THEN /\ rRet' = [rRet EXCEPT ![r] = "err"]
                 /\ UNCHANGED <<lMu, rPc>>
            ELSE /\ lMu' = r
                 /\ rRet' = [rRet EXCEPT ![r] = "none"]
                 /\ rPc' = [rPc EXCEPT ![r] = "ex_create"]
    /\ UNCHANGED <<processes, lRestore, confDisableSeccomp, confNetworkHost, ckStale, lK, nSaved, seccomp,
                   kPaused, kStarted, kLoaded, kGlobalInit, tasks,
                   startIssued, mPc, mErr, sSnap>>

\* Loader.executeAsync: control.ExecAsync creates the process in the
\* container, or fails; the deferred l.mu.Unlock().
executeAsyncCreate(r) ==
    /\ rPc[r] = "ex_create"
    /\ \/ /\ NewTask(rArg[r].cid)
          /\ processes' = [processes EXCEPT ![rArg[r].cid].execs =
                @ \cup {NextTask}]
          /\ RpcReturn(r, "nil")
       \/ /\ RpcReturn(r, "err")
          /\ UNCHANGED <<tasks, processes>>
    /\ lMu' = "free"
    /\ UNCHANGED <<lRestore, confDisableSeccomp, confNetworkHost, ckStale, lK, nSaved, seccomp,
                   kPaused, kStarted, kLoaded, kGlobalInit,
                   startIssued, mPc, mErr, rArg, sSnap, nRpcs>>

\* ---- Loader.signal ----

\* Kernel.SendExternalSignalThreadGroup(tg, info): the signal is queued on
\* the thread group.
SendExternalSignalThreadGroup(tg) ==
    tasks' = [tasks EXCEPT ![tg].sig = TRUE]

\* Loader.threadGroupFromID(execID{cid: cid}) returns a thread group: the
\* container is in l.processes and has started.
threadGroupFromID(cid) ==
    processes[cid].present /\ processes[cid].tg # NilTG

\* Loader.signal(cid, pid, signo, mode) up to signalAllProcesses. The other
\* two modes return from here: signalProcess signals the container's init
\* process (pid 0) or the process pid of the container;
\* signalForegrondProcessGroup finds no TTY, none being attached.
signal(r) ==
    /\ BeginRpc(r)
    /\ lMu = "free"
    /\ \E cid \in LoaderCids, pid \in SignalPids, mode \in SignalDeliveryModes :
         /\ rArg' = [rArg EXCEPT ![r] =
               [NoRpc EXCEPT !.op = "Signal", !.cid = cid, !.pid = pid,
                              !.mode = mode]]
         /\ IF pid < 0
            THEN /\ rRet' = [rRet EXCEPT ![r] = "err"]
                 /\ UNCHANGED <<rPc, tasks>>
            ELSE CASE mode = "DeliverToProcess" ->
                      LET tg == IF pid = 0 /\ threadGroupFromID(cid)
                                THEN processes[cid].tg
                                ELSE pid
                      IN  IF tg # NilTG /\ tasks[tg].st = "alive"
                             /\ tasks[tg].cid = cid
                          THEN /\ SendExternalSignalThreadGroup(tg)
                               /\ rRet' = [rRet EXCEPT ![r] = "nil"]
                               /\ UNCHANGED rPc
                          ELSE /\ rRet' = [rRet EXCEPT ![r] = "err"]
                               /\ UNCHANGED <<rPc, tasks>>
                 [] mode = "DeliverToForegroundProcessGroup" ->
                      /\ rRet' = [rRet EXCEPT ![r] = "err"]
                      /\ UNCHANGED <<rPc, tasks>>
                 [] mode = "DeliverToAllProcesses" ->
                      IF pid # 0 \/ ~threadGroupFromID(cid)
                      THEN /\ rRet' = [rRet EXCEPT ![r] = "err"]
                           /\ UNCHANGED <<rPc, tasks>>
                      ELSE /\ rRet' = [rRet EXCEPT ![r] = "none"]
                           /\ rPc' = [rPc EXCEPT ![r] = "sig_pause"]
                           /\ UNCHANGED tasks
    /\ UNCHANGED <<lMu, processes, lRestore, confDisableSeccomp, confNetworkHost, ckStale, lK, nSaved, seccomp,
                   kPaused, kStarted, kLoaded, kGlobalInit,
                   startIssued, mPc, mErr, sSnap>>

\* Loader.signal(cid, 0, signo, DeliverToAllProcesses): the requests of a
\* client that signals whole containers.
signalDeliverToAllProcesses(r) ==
    /\ signal(r)
    /\ rArg'[r].mode = "DeliverToAllProcesses"
    /\ rArg'[r].pid = 0

\* A signalAllProcesses that does not pause the kernel.
signalAllProcessesNoPause(r) ==
    /\ rPc[r] = "sig_pause"
    /\ rPc' = [rPc EXCEPT ![r] = "sig_send"]
    /\ UNCHANGED <<lMu, processes, lRestore, confDisableSeccomp, confNetworkHost, ckStale, lK, nSaved, seccomp,
                   kPaused, kStarted, kLoaded, kGlobalInit, tasks,
                   startIssued, mPc, mErr, rArg, rRet, sSnap, nRpcs>>

\* Loader.signalAllProcesses: l.k.Pause(); defer l.k.Unpause().
signalAllProcesses(r) ==
    /\ rPc[r] = "sig_pause"
    /\ kPaused' = kPaused + 1
    /\ rPc' = [rPc EXCEPT ![r] = "sig_send"]
    /\ UNCHANGED <<lMu, processes, lRestore, confDisableSeccomp, confNetworkHost, ckStale, lK, nSaved, seccomp,
                   kStarted, kLoaded, kGlobalInit, tasks,
                   startIssued, mPc, mErr, rArg, rRet, sSnap, nRpcs>>

\* Kernel.SendContainerSignal(cid, info): the thread groups of the
\* container are enumerated.
SendContainerSignal(r) ==
    /\ rPc[r] = "sig_send"
    /\ sSnap' = [sSnap EXCEPT ![r] = TasksOf(rArg[r].cid)]
    /\ rPc' = [rPc EXCEPT ![r] = "sig_deliver"]
    /\ UNCHANGED <<lMu, processes, lRestore, confDisableSeccomp, confNetworkHost, ckStale, lK, nSaved, seccomp,
                   kPaused, kStarted, kLoaded, kGlobalInit, tasks,
                   startIssued, mPc, mErr, rArg, rRet, nRpcs>>

\* Kernel.SendContainerSignal: the signal is sent to each enumerated thread
\* group, and the last error of a delivery, if any, is what it returns.
SendContainerSignalDeliver(r) ==
    /\ rPc[r] = "sig_deliver"
    /\ tasks' = [i \in TaskIds |->
          IF i \in sSnap[r] THEN [tasks[i] EXCEPT !.sig = TRUE] ELSE tasks[i]]
    /\ \E err \in {"none", "err"} : rRet' = [rRet EXCEPT ![r] = err]
    /\ rPc' = [rPc EXCEPT ![r] = "sig_unpause"]
    /\ UNCHANGED <<lMu, processes, lRestore, confDisableSeccomp, confNetworkHost, ckStale, lK, nSaved, seccomp,
                   kPaused, kStarted, kLoaded, kGlobalInit,
                   startIssued, mPc, mErr, rArg, sSnap, nRpcs>>

\* What signalAllProcesses returns: the error of SendContainerSignal.
signalAllProcessesErr(r) == IF rRet[r] = "err" THEN "err" ELSE "nil"

\* A signalAllProcesses that returns a delivery error without unpausing.
UnpauseOnSuccessOnly(r) ==
    /\ rPc[r] = "sig_unpause"
    /\ kPaused' = IF rRet[r] = "err" THEN kPaused ELSE kPaused - 1
    /\ CASE rArg[r].op = "DestroySubcontainer" /\ rRet[r] # "err" ->
              /\ rPc' = [rPc EXCEPT ![r] = "ds_tasks"]
              /\ UNCHANGED <<lMu, rRet>>
         [] rArg[r].op = "Signal" ->
              /\ RpcReturn(r, signalAllProcessesErr(r))
              /\ UNCHANGED lMu
         [] OTHER ->
              /\ RpcReturn(r, signalAllProcessesErr(r))
              /\ lMu' = "free"
    /\ UNCHANGED <<processes, lRestore, confDisableSeccomp, confNetworkHost, ckStale, lK, nSaved, seccomp,
                   kStarted, kLoaded, kGlobalInit, tasks,
                   startIssued, mPc, mErr, rArg, sSnap, nRpcs>>

\* Loader.signalAllProcesses returns: the deferred l.k.Unpause(), and the
\* caller goes on. Loader.signal returns the error; destroySubcontainer
\* returns an error, with its deferred l.mu.Unlock(), or goes on to wait
\* for the container's tasks; the gofer monitor logs an error and ends,
\* with its deferred l.mu.Unlock().
Unpause(r) ==
    /\ rPc[r] = "sig_unpause"
    /\ kPaused' = kPaused - 1
    /\ CASE rArg[r].op = "DestroySubcontainer" /\ rRet[r] # "err" ->
              /\ rPc' = [rPc EXCEPT ![r] = "ds_tasks"]
              /\ UNCHANGED <<lMu, rRet>>
         [] rArg[r].op = "Signal" ->
              /\ RpcReturn(r, signalAllProcessesErr(r))
              /\ UNCHANGED lMu
         [] OTHER ->
              /\ RpcReturn(r, signalAllProcessesErr(r))
              /\ lMu' = "free"
    /\ UNCHANGED <<processes, lRestore, confDisableSeccomp, confNetworkHost, ckStale, lK, nSaved, seccomp,
                   kStarted, kLoaded, kGlobalInit, tasks,
                   startIssued, mPc, mErr, rArg, sSnap, nRpcs>>

\* ---- Loader.destroySubcontainer ----

\* A task exits: its thread group's WaitExited returns from then on. Tasks
\* run, and so exit, only while the kernel is not paused.
TaskExit ==
    /\ kStarted /\ kPaused = 0
    /\ \E i \in TaskIds :
         /\ tasks[i].st = "alive"
         /\ tasks' = [tasks EXCEPT ![i].st = "exited"]
    /\ UNCHANGED <<lMu, processes, lRestore, confDisableSeccomp, confNetworkHost, ckStale, lK, nSaved, seccomp,
                   kPaused, kStarted, kLoaded, kGlobalInit, startIssued,
                   mPc, mErr, rPc, rArg, rRet, sSnap, nRpcs>>

\* Loader.destroySubcontainer(cid) up to signalAllProcesses: l.mu.Lock()
\* and tryThreadGroupFromIDLocked. A container that does not exist is an
\* error; one whose entry has no thread group has its entries removed at
\* once.
destroySubcontainer(r) ==
    /\ BeginRpc(r)
    /\ lMu = "free"
    /\ \E cid \in LoaderCids \ {"root"} :
         /\ rArg' = [rArg EXCEPT ![r] =
               [NoRpc EXCEPT !.op = "DestroySubcontainer", !.cid = cid]]
         /\ CASE ~processes[cid].present ->
                   /\ rRet' = [rRet EXCEPT ![r] = "err"]
                   /\ UNCHANGED <<lMu, rPc, processes>>
              [] processes[cid].present /\ processes[cid].tg = NilTG ->
                   /\ processes' = [processes EXCEPT ![cid] = NoProcess]
                   /\ rRet' = [rRet EXCEPT ![r] = "nil"]
                   /\ UNCHANGED <<lMu, rPc>>
              [] OTHER ->
                   /\ lMu' = r
                   /\ rRet' = [rRet EXCEPT ![r] = "none"]
                   /\ rPc' = [rPc EXCEPT ![r] = "sig_pause"]
                   /\ UNCHANGED processes
    /\ UNCHANGED <<lRestore, confDisableSeccomp, confNetworkHost, ckStale, lK, nSaved, seccomp,
                   kPaused, kStarted, kLoaded, kGlobalInit, tasks,
                   startIssued, mPc, mErr, sSnap>>

\* Loader.destroySubcontainer: l.k.TaskSet().Root.Tasks(), of which the
\* tasks of the container are waited for.
destroySubcontainerTasks(r) ==
    /\ rPc[r] = "ds_tasks"
    /\ sSnap' = [sSnap EXCEPT ![r] = TasksOf(rArg[r].cid)]
    /\ rPc' = [rPc EXCEPT ![r] = "ds_wait"]
    /\ UNCHANGED <<lMu, processes, lRestore, confDisableSeccomp, confNetworkHost, ckStale, lK, nSaved, seccomp,
                   kPaused, kStarted, kLoaded, kGlobalInit, tasks,
                   startIssued, mPc, mErr, rArg, rRet, nRpcs>>

\* A destroySubcontainer that removes the entries without waiting for the
\* tasks to exit.
destroySubcontainerNoWait(r) ==
    /\ rPc[r] = "ds_wait"
    /\ processes' = [processes EXCEPT ![rArg[r].cid] = NoProcess]
    /\ lMu' = "free"
    /\ RpcReturn(r, "nil")
    /\ UNCHANGED <<lRestore, confDisableSeccomp, confNetworkHost, ckStale, lK, nSaved, seccomp,
                   kPaused, kStarted, kLoaded, kGlobalInit, tasks,
                   startIssued, mPc, mErr, rArg, sSnap, nRpcs>>

\* Loader.destroySubcontainer: t.ThreadGroup().WaitExited() has returned
\* for each of the tasks; every key of the container is deleted from
\* l.processes, and the deferred l.mu.Unlock().
destroySubcontainerRemove(r) ==
    /\ rPc[r] = "ds_wait"
    /\ \A i \in sSnap[r] : tasks[i].st = "exited"
    /\ processes' = [processes EXCEPT ![rArg[r].cid] = NoProcess]
    /\ lMu' = "free"
    /\ RpcReturn(r, "nil")
    /\ UNCHANGED <<lRestore, confDisableSeccomp, confNetworkHost, ckStale, lK, nSaved, seccomp,
                   kPaused, kStarted, kLoaded, kGlobalInit, tasks,
                   startIssued, mPc, mErr, rArg, sSnap, nRpcs>>

\* The goroutine of startGoferMonitor, once Ppoll has reported that the
\* gofer of container cid has disconnected: l.mu.Lock(), and
\* signalAllProcesses if the container has a thread group. The goroutine
\* takes one of the goroutine slots of the model.
startGoferMonitor(r) ==
    /\ BeginRpc(r)
    /\ lMu = "free"
    /\ \E cid \in LoaderCids \ {"root"} :
         /\ rArg' = [rArg EXCEPT ![r] =
               [NoRpc EXCEPT !.op = "GoferMonitor", !.cid = cid]]
         /\ IF processes[cid].present /\ processes[cid].tg # NilTG
            THEN /\ lMu' = r
                 /\ rRet' = [rRet EXCEPT ![r] = "none"]
                 /\ rPc' = [rPc EXCEPT ![r] = "sig_pause"]
            ELSE /\ rRet' = [rRet EXCEPT ![r] = "nil"]
                 /\ UNCHANGED <<lMu, rPc>>
    /\ UNCHANGED <<processes, lRestore, confDisableSeccomp, confNetworkHost, ckStale, lK, nSaved, seccomp,
                   kPaused, kStarted, kLoaded, kGlobalInit, tasks,
                   startIssued, mPc, mErr, sSnap>>

\* Loader.waitPID(tgid, cid) for a process that was exec'd: the lookup of
\* its entry by threadGroupFromID, under l.mu.
waitPID(r) ==
    /\ BeginRpc(r)
    /\ lMu = "free"
    /\ \E cid \in LoaderCids, tgid \in TaskIds :
         /\ rArg' = [rArg EXCEPT ![r] =
               [NoRpc EXCEPT !.op = "WaitPID", !.cid = cid, !.pid = tgid]]
         /\ IF processes[cid].present /\ tgid \in processes[cid].execs
            THEN /\ rRet' = [rRet EXCEPT ![r] = "none"]
                 /\ rPc' = [rPc EXCEPT ![r] = "wp_wait"]
            ELSE /\ rRet' = [rRet EXCEPT ![r] = "err"]
                 /\ UNCHANGED rPc
    /\ UNCHANGED <<lMu, processes, lRestore, confDisableSeccomp, confNetworkHost, ckStale, lK, nSaved, seccomp,
                   kPaused, kStarted, kLoaded, kGlobalInit, tasks,
                   startIssued, mPc, mErr, sSnap>>

\* Loader.waitPID: l.wait(execTG) has returned; l.mu.Lock(),
\* delete(l.processes, eid), l.mu.Unlock().
waitPIDDelete(r) ==
    /\ rPc[r] = "wp_wait"
    /\ tasks[rArg[r].pid].st = "exited"
    /\ lMu = "free"
    /\ processes' = [processes EXCEPT ![rArg[r].cid].execs =
          @ \ {rArg[r].pid}]
    /\ RpcReturn(r, "nil")
    /\ UNCHANGED <<lMu, lRestore, confDisableSeccomp, confNetworkHost, ckStale, lK, nSaved, seccomp,
                   kPaused, kStarted, kLoaded, kGlobalInit, tasks,
                   startIssued, mPc, mErr, rArg, sSnap, nRpcs>>

\* The Loader of a booted sandbox: StartRoot has returned nil, so that the
\* filters are installed, the kernel is started and the root container's
\* thread group is the kernel's init task; the boot goroutine waits for the
\* sandbox to exit. The subcontainer has not been created, or has been
\* created, or has been created and started.
LoaderBooted ==
    /\ lMu = "free"
    /\ \E sub \in {"absent", "created", "started"} :
         /\ processes = [c \in LoaderCids |->
               IF c = "root" THEN [present |-> TRUE, tg |-> 1, execs |-> {}]
               ELSE CASE sub = "absent" -> NoProcess
                      [] sub = "created" ->
                           [present |-> TRUE, tg |-> NilTG, execs |-> {}]
                      [] sub = "started" ->
                           [present |-> TRUE, tg |-> 2, execs |-> {}]]
         /\ tasks = [i \in TaskIds |->
               CASE i = 1 -> [st |-> "alive", cid |-> "root", sig |-> FALSE]
                 [] i = 2 /\ sub = "started" ->
                      [st |-> "alive", cid |-> "sub", sig |-> FALSE]
                 [] OTHER -> NoTask]
    /\ lRestore = FALSE
    /\ confDisableSeccomp = FALSE
    /\ confNetworkHost = FALSE
    /\ ckStale = [r \in RpcThreads |-> FALSE]
    /\ lK = "boot"
    /\ nSaved = 0
    /\ seccomp = "installed"
    /\ kPaused = 0
    /\ kStarted = TRUE
    /\ kLoaded = FALSE
    /\ kGlobalInit = 1
    /\ startIssued = TRUE
    /\ mPc = "wait_exit"
    /\ mErr = "nil"
    /\ rPc = [r \in RpcThreads |-> "idle"]
    /\ rArg = [r \in RpcThreads |-> NoRpc]
    /\ rRet = [r \in RpcThreads |-> "none"]
    /\ sSnap = [r \in RpcThreads |-> {}]
    /\ nRpcs = 0

\* The state the loader variables keep in the specifications of the other
\* subsystems.
LoaderIdle ==
    /\ lMu = "free"
    /\ processes = [c \in LoaderCids |->
          [present |-> (c = "root"), tg |-> NilTG, execs |-> {}]]
    /\ lRestore = FALSE
    /\ confDisableSeccomp = FALSE
    /\ confNetworkHost = FALSE
    /\ ckStale = [r \in RpcThreads |-> FALSE]
    /\ lK = "boot"
    /\ nSaved = 0
    /\ seccomp = "none"
    /\ kPaused = 0
    /\ kStarted = FALSE
    /\ kLoaded = FALSE
    /\ kGlobalInit = NilTG
    /\ tasks = [i \in TaskIds |-> NoTask]
    /\ startIssued = FALSE
    /\ mPc = "wait_start"
    /\ mErr = "nil"
    /\ rPc = [r \in RpcThreads |-> "idle"]
    /\ rArg = [r \in RpcThreads |-> NoRpc]
    /\ rRet = [r \in RpcThreads |-> "none"]
    /\ sSnap = [r \in RpcThreads |-> {}]
    /\ nRpcs = 0

(***************************************************************************)
(* runsc/config (flags.go): Config.Override and the override allowlist;    *)
(* runsc/sandbox: the CPU count given to the sandbox process.              *)
(* The Config struct and Config.validate are not part of the sources: the  *)
(* model keeps one boolean field per flag, named as the flag is, and lets  *)
(* validate succeed or fail.                                               *)
(***************************************************************************)

\* Boolean flags registered by RegisterFlags that have a Config field.
FlagNames == {"debug", "oci-seccomp", "cpu-num-from-quota", "allow-flag-override"}

\* Names an Override call is made with.
OverrideNames == FlagNames \cup {"no-such-flag"}

\* Values an Override call is made with.
OverrideValues == {"true", "1", "false", "F", "maybe"}

NoOverride == [name |-> "none", value |-> "", force |-> FALSE]

NoCgroup == [cgroup |-> FALSE, cpuNum |-> 0, quota |-> 0]

\* overrideAllowlist: the flags an annotation may change without
\* allow-flag-override, and whether the entry has a check function.
overrideAllowlist ==
    [n \in {"debug", "strace", "strace-syscalls", "strace-log-size",
            "host-uds", "oci-seccomp"} |-> [check |-> n = "oci-seccomp"]]

\* strconv.ParseBool.
ParseBool(value) ==
    IF value \in {"1", "t", "T", "TRUE", "true", "True"}
    THEN [ok |-> TRUE, v |-> TRUE]
    ELSE IF value \in {"0", "f", "F", "FALSE", "false", "False"}
         THEN [ok |-> TRUE, v |-> FALSE]
         ELSE [ok |-> FALSE, v |-> FALSE]

\* A checkOciSeccomp that only wants a boolean.
checkOciSeccompAllowsDisable(name, value) ==
    IF ~ParseBool(value).ok THEN "parse" ELSE "nil"

\* checkOciSeccomp: seccomp can be enabled but not disabled.
checkOciSeccomp(name, value) ==
    IF ~ParseBool(value).ok THEN "parse"
    ELSE IF ~ParseBool(value).v THEN "disable"
    ELSE "nil"

\* Config.isOverrideAllowed.
isOverrideAllowed(name, value) ==
    IF conf["allow-flag-override"] THEN "nil"
    ELSE IF name \in DOMAIN overrideAllowlist
         THEN IF overrideAllowlist[name].check
              THEN checkOciSeccomp(name, value)
              ELSE "nil"
         ELSE "disabled"

ConfigInit ==
    /\ conf \in [FlagNames -> BOOLEAN]
    /\ flagSet = conf
    /\ ovArg = NoOverride
    /\ ovErr = "nil"
    /\ nOverrides = 0
    /\ spArg = NoCgroup
    /\ cpuNumArg = 0
    /\ spErr = "none"

\* Config.Override(flagSet, name, value, force).  fl.Value.Set of a boolean
\* flag stores the parsed value, false when the value does not parse, and
\* returns the parse error; the field is written only after Set succeeded.
Override(name, value, force) ==
    /\ spErr = "none"
    /\ nOverrides < MaxOverrides
    /\ nOverrides' = nOverrides + 1
    /\ ovArg' = [name |-> name, value |-> value, force |-> force]
    /\ IF name \notin FlagNames
       THEN /\ ovErr' = "notfound"
            /\ UNCHANGED <<conf, flagSet>>
       ELSE IF ~force /\ isOverrideAllowed(name, value) # "nil"
       THEN /\ ovErr' = isOverrideAllowed(name, value)
            /\ UNCHANGED <<conf, flagSet>>
       ELSE IF ~ParseBool(value).ok
       THEN /\ ovErr' = "parse"
            /\ flagSet' = [flagSet EXCEPT ![name] = FALSE]
            /\ UNCHANGED conf
       ELSE /\ flagSet' = [flagSet EXCEPT ![name] = ParseBool(value).v]
            /\ conf' = [conf EXCEPT ![name] = ParseBool(value).v]
            /\ \E verr \in {"nil", "validate"} : ovErr' = verr
    /\ UNCHANGED <<spArg, cpuNumArg, spErr>>

\* Quotas Cgroup.CPUQuota can return, in units of 1/QuotaDen CPU; -1 CPU
\* stands for no quota.
Quotas == {-QuotaDen} \cup (1 .. MaxQuota * QuotaDen)

\* int(math.Ceil(quota)) of a quota of q/QuotaDen CPUs.
Ceil(q) == -((-q) \div QuotaDen)

\* minCPUs in createSandboxProcess.
minCPUs == 2

\* A createSandboxProcess that takes the clamped quota whatever NumCPU is.
cpuNumIsQuota(cpuNum, q) ==
    LET n == Ceil(q)
    IN  IF n < minCPUs THEN minCPUs ELSE n

\* The cpuNum that createSandboxProcess computes from Cgroup.NumCPU() and
\* Cgroup.CPUQuota().
cpuNumFromQuota(cpuNum, q) ==
    LET n == Ceil(q)
        m == IF n < minCPUs THEN minCPUs ELSE n
    IN  IF n > 0 /\ m < cpuNum THEN m ELSE cpuNum

\* Sandbox.createSandboxProcess, the part that sizes the CPUs: without a
\* cgroup no --cpu-num is given; an error of NumCPU or CPUQuota ends the
\* creation.
createSandboxProcess ==
    /\ spErr = "none"
    /\ \E cgroup \in BOOLEAN, cpuNum \in 1 .. MaxCPUs, q \in Quotas,
          err \in {"nil", "numcpu", "quota"} :
         /\ spArg' = IF cgroup
                     THEN [cgroup |-> TRUE, cpuNum |-> cpuNum, quota |-> q]
                     ELSE NoCgroup
         /\ IF ~cgroup
            THEN /\ err = "nil"
                 /\ cpuNumArg' = 0
                 /\ spErr' = "nil"
            ELSE IF err = "numcpu" \/ (err = "quota" /\ conf["cpu-num-from-quota"])
            THEN /\ cpuNumArg' = 0
                 /\ spErr' = err
            ELSE /\ err = "nil"
                 /\ cpuNumArg' = IF conf["cpu-num-from-quota"]
                                 THEN cpuNumFromQuota(cpuNum, q)
                                 ELSE cpuNum
                 /\ spErr' = "nil"
    /\ UNCHANGED <<conf, flagSet, ovArg, ovErr, nOverrides>>

ConfigIdle ==
    /\ conf = [n \in FlagNames |-> FALSE]
    /\ flagSet = conf
    /\ ovArg = NoOverride
    /\ ovErr = "nil"
    /\ nOverrides = 0
    /\ spArg = NoCgroup
    /\ cpuNumArg = 0
    /\ spErr = "none"

(***************************************************************************)
(* pkg/sentry/arch (arch.go): Context64.NewMmapLayout.                     *)
(* hostarch.Addr is a uint64.  A value is kept as three limbs, two of 24   *)
(* bits and a high one of 16 bits, and the arithmetic wraps at 2^64 as the *)
(* code's does.                                                            *)
(***************************************************************************)

\* 2^24, the size of the two low limbs, and 2^16, the size of the high one.
Limb == 16777216
TopLimb == 65536

\* hostarch.PageSize
PageSize == 4096

U64(l0, l1, l2) == <<l0, l1, l2>>

Zero64 == U64(0, 0, 0)

\* ^uint64(0)
AllOnes64 == U64(Limb - 1, Limb - 1, TopLimb - 1)

\* a + b
Add64(a, b) ==
    LET s0 == a[1] + b[1]
        s1 == a[2] + b[2] + (s0 \div Limb)
        s2 == a[3] + b[3] + (s1 \div Limb)
    IN  <<s0 % Limb, s1 % Limb, s2 % TopLimb>>

\* a - b
Sub64(a, b) ==
    LET d0 == a[1] - b[1]
        b0 == IF d0 < 0 THEN 1 ELSE 0
        d1 == a[2] - b[2] - b0
        b1 == IF d1 < 0 THEN 1 ELSE 0
        d2 == a[3] - b[3] - b1
    IN  <<d0 + b0 * Limb, d1 + b1 * Limb, (d2 + TopLimb) % TopLimb>>

\* a < b
Lt64(a, b) ==
    \/ a[3] < b[3]
    \/ a[3] = b[3] /\ a[2] < b[2]
    \/ a[3] = b[3] /\ a[2] = b[2] /\ a[1] < b[1]

\* a / k for a small k
Div64(a, k) ==
    LET v2 == a[3]
        v1 == (v2 % k) * Limb + a[2]
        v0 == (v1 % k) * Limb + a[1]
    IN  <<v0 \div k, v1 \div k, v2 \div k>>

\* a * k for a small k
Mul64(a, k) ==
    LET p0 == a[1] * k
        p1 == a[2] * k + (p0 \div Limb)
        p2 == a[3] * k + (p1 \div Limb)
    IN  <<p0 % Limb, p1 % Limb, p2 % TopLimb>>

\* hostarch.Addr.RoundDown
RoundDown(a) == <<a[1] - (a[1] % PageSize), a[2], a[3]>>

\* hostarch.Addr.RoundUp: the rounded address, and ok if it did not wrap
RoundUp(a) ==
    LET addr == RoundDown(Add64(a, U64(PageSize - 1, 0, 0)))
    IN  [addr |-> addr, ok |-> ~Lt64(addr, a)]

\* (1 << 47) - hostarch.PageSize
maxAddr64 == U64(Limb - PageSize, 8388607, 0)

\* 16 << 30
maxStackRand64 == U64(0, 1024, 0)

\* (1 << 28) * hostarch.PageSize
maxMmapRand64 == U64(0, 65536, 0)

\* (128 << 20) + maxStackRand64
minGap64 == Add64(U64(0, 8, 0), maxStackRand64)

\* 0x7e8000000000
preferredTopDownAllocMin == U64(0, 8290304, 0)

\* 128 << 30
preferredAllocationGap == U64(0, 8192, 0)

preferredTopDownBaseMin == Add64(preferredTopDownAllocMin, preferredAllocationGap)

\* (1 << 26) * hostarch.PageSize
minMmapRand64 == U64(0, 16384, 0)

\* limits.Infinity
Infinity == AllOnes64

\* Lower ends of the address range that NewMmapLayout is called with:
\* 0, 1, one page, 64 KiB, 2^46, 2^47 and the largest uint64.
MinAddrs ==
    {Zero64, U64(1, 0, 0), U64(PageSize, 0, 0), U64(65536, 0, 0),
     U64(0, 4194304, 0), U64(0, 8388608, 0), AllOnes64}

\* Upper ends: one page, 1 GiB, 0x7f0000000000, maxAddr64, 2^47 and the
\* largest uint64.
MaxAddrs ==
    {U64(PageSize, 0, 0), U64(0, 64, 0), U64(0, 8323072, 0), maxAddr64,
     U64(0, 8388608, 0), AllOnes64}

\* Soft stack limits: 0, 8 MiB, 1 TiB and unlimited.
StackLimits == {Zero64, U64(8388608, 0, 0), U64(0, 65536, 0), Infinity}

\* Values rand.Int63n can return, before they are rounded down to a page.
RandValues ==
    {Zero64, U64(2 * PageSize + 1, 0, 0), Sub64(minMmapRand64, U64(1, 0, 0)),
     U64(0, 40000, 0), Sub64(maxMmapRand64, U64(1, 0, 0))}

NoLayout ==
    [MinAddr |-> Zero64, MaxAddr |-> Zero64, BottomUpBase |-> Zero64,
     TopDownBase |-> Zero64, DefaultDirection |-> "none",
     MaxStackRand |-> Zero64]

\* MmapLayout.Valid
Valid(m) ==
    /\ ~Lt64(m.MaxAddr, m.MinAddr)
    /\ ~Lt64(m.BottomUpBase, m.MinAddr)
    /\ ~Lt64(m.MaxAddr, m.BottomUpBase)
    /\ ~Lt64(m.TopDownBase, m.MinAddr)
    /\ ~Lt64(m.MaxAddr, m.TopDownBase)

\* max after the clamp to maxAddr64 and the rounding down
clampMax(max) ==
    RoundDown(IF Lt64(maxAddr64, max) THEN maxAddr64 ELSE max)

\* gap: the stack limit, at least minGap64 and at most maxGap = (max/6)*5
stackGap(max, stackCur) ==
    LET maxGap == Mul64(Div64(max, 6), 5)
        g == IF Lt64(stackCur, minGap64) THEN minGap64 ELSE stackCur
    IN  IF Lt64(maxGap, g) THEN maxGap ELSE g

\* maxRand: maxMmapRand64, shrunk to keep TopDownBase above
\* preferredTopDownBaseMin if that takes no more than the allowed adjustment
maxRandOf(max, gap) ==
    LET topDownMin == Sub64(Sub64(max, gap), maxMmapRand64)
        maxAdjust == Sub64(maxMmapRand64, minMmapRand64)
        needAdjust == Sub64(preferredTopDownBaseMin, topDownMin)
    IN  IF Lt64(topDownMin, preferredTopDownBaseMin) /\ ~Lt64(maxAdjust, needAdjust)
        THEN Sub64(maxMmapRand64, needAdjust)
        ELSE maxMmapRand64

\* The MmapLayout that NewMmapLayout builds from the rounded min and max
\* and from what mmapRand returned.
layoutOf(min, max, stackCur, rnd) ==
    LET gap == stackGap(max, stackCur)
    IN  [MinAddr |-> min,
         MaxAddr |-> max,
         BottomUpBase |-> RoundDown(Add64(Div64(max, 3), rnd)),
         TopDownBase |-> RoundDown(Sub64(Sub64(max, gap), rnd)),
         DefaultDirection |->
             IF stackCur = Infinity THEN "MmapBottomUp" ELSE "MmapTopDown",
         MaxStackRand |-> maxRandOf(max, gap)]

MmapInit ==
    /\ mlArg \in [min : MinAddrs, max : MaxAddrs, stack : StackLimits]
    /\ mlRnd = Zero64
    /\ mlRet = [kind |-> "none", l |-> NoLayout]

\* Context64.NewMmapLayout(min, max, r)
NewMmapLayout ==
    /\ mlRet.kind = "none"
    /\ LET min == RoundUp(mlArg.min)
           max == clampMax(mlArg.max)
       IN  IF ~min.ok \/ Lt64(max, min.addr)
           THEN /\ mlRet' = [kind |-> "EINVAL", l |-> NoLayout]
                /\ UNCHANGED mlRnd
           ELSE \E r \in RandValues :
                  /\ Lt64(r, maxRandOf(max, stackGap(max, mlArg.stack)))
                  /\ mlRnd' = RoundDown(r)
                  /\ LET l == layoutOf(min.addr, max, mlArg.stack, RoundDown(r))
                     IN  mlRet' = [kind |-> IF Valid(l) THEN "layout" ELSE "panic",
                                   l |-> l]
    /\ UNCHANGED mlArg

MmapIdle ==
    /\ mlArg = [min |-> Zero64, max |-> Zero64, stack |-> Zero64]
    /\ mlRnd = Zero64
    /\ mlRet = [kind |-> "none", l |-> NoLayout]

(***************************************************************************)
(* runsc/boot (loader.go): compatEmitter.emitUnimplementedSyscall and its  *)
(* trackers.  newArchArgsTracker and reportLimit are defined in a file     *)
(* that is not part of the sources: the first is taken to know none of the *)
(* syscalls of the model, the second to be a small positive number.        *)
(***************************************************************************)

\* Syscall numbers of the events, by their unix.SYS_ names: one for each
\* kind of tracker.
Sysnrs ==
    {"SYS_VHANGUP", "SYS_PRCTL", "SYS_EPOLL_CTL", "SYS_GETSOCKOPT",
     "SYS_SEMCTL"}

\* Values of an argument register.
ArgVals == {0, 1}

\* The argument registers that the trackers look at: arguments 0, 1 and 2.
ArgRegs == [0 .. 2 -> ArgVals]

\* reportLimit: the number of distinct keys an argsTracker reports.
reportLimit == 2

NilTracker == [kind |-> "nil", argsIdx |-> <<>>, reported |-> {}, count |-> 0]

\* &onceTracker{}; reported is {<<>>} once it has reported.
onceTracker == [kind |-> "once", argsIdx |-> <<>>, reported |-> {}, count |-> 0]

\* newArgsTracker(argIdx...)
newArgsTracker(argIdx) ==
    [kind |-> "args", argsIdx |-> argIdx, reported |-> {}, count |-> 0]

\* newArchArgsTracker(sysnr): nil for the syscalls of the model.
newArchArgsTracker(sysnr) == NilTracker

\* The tracker that emitUnimplementedSyscall makes for a syscall number it
\* has no tracker for.
newTracker(sysnr) ==
    IF sysnr = "SYS_PRCTL" THEN newArgsTracker(<<0>>)
    ELSE IF sysnr \in {"SYS_IOCTL", "SYS_EPOLL_CTL", "SYS_SHMCTL", "SYS_FUTEX",
                       "SYS_FALLOCATE"}
         THEN newArgsTracker(<<1>>)
    ELSE IF sysnr \in {"SYS_GETSOCKOPT", "SYS_SETSOCKOPT"}
         THEN newArgsTracker(<<1, 2>>)
    ELSE IF sysnr = "SYS_SEMCTL" THEN newArgsTracker(<<2>>)
    ELSE IF newArchArgsTracker(sysnr) # NilTracker
         THEN newArchArgsTracker(sysnr)
         ELSE onceTracker

\* argsTracker.key: the decimal values of the chosen arguments, each
\* followed by "|"; kept as the sequence of the values.
key(a, regs) == [i \in 1 .. Len(a.argsIdx) |-> regs[a.argsIdx[i]]]

\* An argsTracker that reports every event.
shouldReportAlways(tr, regs) == TRUE

\* syscallTracker.shouldReport
shouldReport(tr, regs) ==
    IF tr.kind = "once"
    THEN tr.reported = {}
    ELSE /\ tr.count < reportLimit
         /\ key(tr, regs) \notin tr.reported

\* syscallTracker.onReported
onReported(tr, regs) ==
    IF tr.kind = "once"
    THEN [tr EXCEPT !.reported = {<<>>}]
    ELSE [tr EXCEPT !.count = @ + 1, !.reported = @ \cup {key(tr, regs)}]

CompatInit ==
    /\ trackers = [n \in Sysnrs |-> NilTracker]
    /\ emitted = <<>>
    /\ nSyscalls = 0

\* compatEmitter.emitUnimplementedSyscall(us), all of it under c.mu
emitUnimplementedSyscall(sysnr, regs) ==
    /\ nSyscalls < MaxSyscalls
    /\ nSyscalls' = nSyscalls + 1
    /\ LET tr == IF trackers[sysnr] = NilTracker
                 THEN newTracker(sysnr)
                 ELSE trackers[sysnr]
       IN  IF shouldReport(tr, regs)
           THEN /\ emitted' = Append(emitted, [sysnr |-> sysnr, regs |-> regs])
                /\ trackers' = [trackers EXCEPT ![sysnr] = onReported(tr, regs)]
           ELSE /\ trackers' = [trackers EXCEPT ![sysnr] = tr]
                /\ UNCHANGED emitted

CompatIdle == CompatInit

(***************************************************************************)
(* runsc/sandbox (sandbox.go): the namespaces that createSandboxProcess    *)
(* chooses for the sandbox process.                                        *)
(***************************************************************************)

\* config.NetworkSandbox, config.NetworkHost, config.NetworkNone
NetworkTypes == {"sandbox", "host", "none"}

\* A namespace entry of the given type; an empty path asks for a new one.
Namespace(type, path) == [Type |-> type, Path |-> path]

\* What specutils.GetNS finds in the spec for a type: nothing, an entry
\* without a path, or an entry with the path of an existing namespace.
SpecNS(type) ==
    {<<>>, <<Namespace(type, "")>>, <<Namespace(type, "/proc/1/ns")>>}

\* The arguments and the host state that the choice depends on.
NamespaceArgs ==
    [Network : NetworkTypes,
     specNetNS : SpecNS("network"),
     specUserNS : {<<>>, <<Namespace("user", "")>>},
     RequiresCurrentPIDNS : BOOLEAN,
     DirectFS : BOOLEAN,
     rootlessEUID : BOOLEAN,
     TestOnly : BOOLEAN,
     hasCaps : BOOLEAN]

NamespacesInit ==
    /\ nsArg \in NamespaceArgs
    /\ nss = <<>>
    /\ nsArgs = {}
    /\ nsRet = "none"

\* nss before the PID namespace: new IPC, mount and UTS namespaces.
baseNamespaces ==
    <<Namespace("ipc", ""), Namespace("mount", ""), Namespace("uts", "")>>

\* The PID namespace entry, unless the platform needs the current one.
pidNamespace(a) ==
    IF a.RequiresCurrentPIDNS THEN <<>> ELSE <<Namespace("pid", "")>>

\* A choice that looks at conf.Network alone: nothing for host networking
\* and for no networking, a new namespace for sandbox networking.
networkNamespaceByTypeOnly(a) ==
    IF a.Network = "sandbox" THEN <<Namespace("network", "")>> ELSE <<>>

\* The network namespace entry: the spec's if it has one and networking is
\* not disabled, none for host networking, a new one otherwise.
networkNamespace(a) ==
    IF a.specNetNS # <<>> /\ a.Network # "none" THEN a.specNetNS
    ELSE IF a.Network = "host" THEN <<>>
    ELSE <<Namespace("network", "")>>

\* createSandboxProcess from the choice of namespaces to the user
\* namespace: nss, the flags for the sandbox, and the errors on the way.
createSandboxProcessNamespaces ==
    /\ nsRet = "none"
    /\ LET a == nsArg
           n == baseNamespaces \o pidNamespace(a) \o networkNamespace(a)
           pidArg == IF a.RequiresCurrentPIDNS THEN {} ELSE {"--pidns=true"}
       IN  IF a.Network = "host" \/ a.DirectFS
           THEN IF a.specUserNS = <<>> /\ a.rootlessEUID
                THEN /\ nsRet' = "err"
                     /\ nss' = n
                     /\ nsArgs' = pidArg
                ELSE \E rootlessErr \in BOOLEAN :
                  IF a.specUserNS # <<>> /\ a.rootlessEUID /\ rootlessErr
                  THEN /\ nsRet' = "err"
                       /\ nss' = n \o a.specUserNS
                       /\ nsArgs' = pidArg
                  ELSE /\ ~rootlessErr
                       /\ nss' = n \o a.specUserNS
                       /\ IF a.TestOnly
                          THEN /\ nsArgs' = pidArg \cup {"--apply-caps=true"}
                               /\ nsRet' = "nil"
                          ELSE IF a.hasCaps \/ a.rootlessEUID
                          THEN /\ nsArgs' = pidArg \cup
                                     {"--apply-caps=true", "--setup-root"}
                               /\ nsRet' = "nil"
                          ELSE /\ nsArgs' = pidArg \cup {"--apply-caps=true"}
                               /\ nsRet' = "err"
           ELSE IF a.TestOnly
                THEN /\ nss' = n
                     /\ nsArgs' = pidArg
                     /\ nsRet' = "nil"
                ELSE IF a.rootlessEUID \/ a.hasCaps
                THEN /\ nss' = n \o <<Namespace("user", "")>>
                     /\ nsArgs' = pidArg \cup {"--setup-root"}
                     /\ nsRet' = "nil"
                ELSE /\ nss' = n
                     /\ nsArgs' = pidArg
                     /\ nsRet' = "err"
    /\ UNCHANGED nsArg

NamespacesIdle ==
    /\ nsArg = [Network |-> "sandbox", specNetNS |-> <<>>, specUserNS |-> <<>>,
                RequiresCurrentPIDNS |-> FALSE, DirectFS |-> FALSE,
                rootlessEUID |-> FALSE, TestOnly |-> FALSE, hasCaps |-> FALSE]
    /\ nss = <<>>
    /\ nsArgs = {}
    /\ nsRet = "none"

(***************************************************************************)
(* Sandbox construction (runsc/sandbox/sandbox.go): New and the cleanup it *)
(* registers, which calls Sandbox.destroy.                                 *)
(***************************************************************************)

\* The arguments of New that decide which steps it takes.
NewArgs ==
    [PodInitConfig : BOOLEAN, MetricServer : BOOLEAN, setUserMappings : BOOLEAN]

\* Before New is called: no Sandbox process, no control socket.
NewInit ==
    /\ nwPc = "idle"
    /\ nwArg = [PodInitConfig |-> FALSE, MetricServer |-> FALSE,
                setUserMappings |-> FALSE]
    /\ nwRet = "none"
    /\ nwCleanup = "none"
    /\ nwSpawned = FALSE

\* The state the variables of New keep in the specifications of the other
\* subsystems: New has returned the Sandbox.
NewIdle ==
    /\ nwPc = "done"
    /\ nwArg = [PodInitConfig |-> FALSE, MetricServer |-> FALSE,
                setUserMappings |-> FALSE]
    /\ nwRet = "nil"
    /\ nwCleanup = "released"
    /\ nwSpawned = TRUE

\* An error return of New or of createSandboxProcess: the deferred c.Clean()
\* is what runs next.
NewFails == nwPc' = "clean"

\* New up to defer c.Clean(): the Sandbox is allocated and the cleanup that
\* destroys it is registered.
New ==
    /\ nwPc = "idle"
    /\ \E a \in NewArgs :
         /\ nwArg' = a
         /\ nwPc' = IF a.PodInitConfig THEN "init_config" ELSE "pipe"
    /\ nwCleanup' = "armed"
    /\ UNCHANGED <<sbPid, sbChild, sbStatus, statusMu, ctlKind, ctlFile,
                   proc, procStatus, rootExit, subExit, sbPc, sbCid, sbWs,
                   sbCaller, sbPolls, sbRet, dRets, dSnap, dKills, dWait4s,
                   dSleeps, nwRet, nwSpawned>>

\* New: boot.LoadInitConfig and initConf.Setup, either of which may fail.
NewInitConfig ==
    /\ nwPc = "init_config"
    /\ nwPc' = "pipe" \/ NewFails
    /\ UNCHANGED <<sbPid, sbChild, sbStatus, statusMu, ctlKind, ctlFile,
                   proc, procStatus, rootExit, subExit, sbPc, sbCid, sbWs,
                   sbCaller, sbPolls, sbRet, dRets, dSnap, dKills, dWait4s,
                   dSleeps, nwArg, nwRet, nwCleanup, nwSpawned>>

\* New: os.Pipe(), which may fail.
NewPipe ==
    /\ nwPc = "pipe"
    /\ nwPc' = "csp_socket" \/ NewFails
    /\ UNCHANGED <<sbPid, sbChild, sbStatus, statusMu, ctlKind, ctlFile,
                   proc, procStatus, rootExit, subExit, sbPc, sbCid, sbWs,
                   sbCaller, sbPolls, sbRet, dRets, dSnap, dKills, dWait4s,
                   dSleeps, nwArg, nwRet, nwCleanup, nwSpawned>>

\* createSandboxProcess up to createControlSocket: a step before it fails,
\* or the socket is made and s.ControlAddress set; a socket with a path name
\* is a file.
createControlSocket ==
    /\ nwPc = "csp_socket"
    /\ \/ /\ ctlFile' = (ctlKind = "path")
          /\ nwPc' = "csp_args"
       \/ /\ NewFails
          /\ UNCHANGED ctlFile
    /\ UNCHANGED <<sbPid, sbChild, sbStatus, statusMu, ctlKind, proc,
                   procStatus, rootExit, subExit, sbPc, sbCid, sbWs,
                   sbCaller, sbPolls, sbRet, dRets, dSnap, dKills, dWait4s,
                   dSleeps, nwArg, nwRet, nwCleanup, nwSpawned>>

\* createSandboxProcess from the control socket to the command being ready:
\* donations, namespaces, credentials, any of which may fail.
createSandboxProcessArgs ==
    /\ nwPc = "csp_args"
    /\ nwPc' = "csp_start" \/ NewFails
    /\ UNCHANGED <<sbPid, sbChild, sbStatus, statusMu, ctlKind, ctlFile,
                   proc, procStatus, rootExit, subExit, sbPc, sbCid, sbWs,
                   sbCaller, sbPolls, sbRet, dRets, dSnap, dKills, dWait4s,
                   dSleeps, nwArg, nwRet, nwCleanup, nwSpawned>>

\* createSandboxProcess: specutils.StartInNS(cmd, nss) starts the sandbox
\* process, or fails.
StartInNS ==
    /\ nwPc = "csp_start"
    /\ \/ /\ proc' = "running"
          /\ nwSpawned' = TRUE
          /\ nwPc' = "csp_oom"
       \/ /\ NewFails
          /\ UNCHANGED <<proc, nwSpawned>>
    /\ UNCHANGED <<sbPid, sbChild, sbStatus, statusMu, ctlKind, ctlFile,
                   procStatus, rootExit, subExit, sbPc, sbCid, sbWs,
                   sbCaller, sbPolls, sbRet, dRets, dSnap, dKills, dWait4s,
                   dSleeps, nwArg, nwRet, nwCleanup>>

\* createSandboxProcess: specutils.GetOOMScoreAdj(cmd.Process.Pid); its
\* error is returned.
GetOOMScoreAdj ==
    /\ nwPc = "csp_oom"
    /\ \/ nwPc' = IF nwArg.setUserMappings THEN "csp_usermap" ELSE "csp_store"
       \/ NewFails
    /\ UNCHANGED <<sbPid, sbChild, sbStatus, statusMu, ctlKind, ctlFile,
                   proc, procStatus, rootExit, subExit, sbPc, sbCid, sbWs,
                   sbCaller, sbPolls, sbRet, dRets, dSnap, dKills, dWait4s,
                   dSleeps, nwArg, nwRet, nwCleanup, nwSpawned>>

\* createSandboxProcess: SetUserMappings(args.Spec, cmd.Process.Pid); its
\* error is returned.
SetUserMappings ==
    /\ nwPc = "csp_usermap"
    /\ nwPc' = "csp_store" \/ NewFails
    /\ UNCHANGED <<sbPid, sbChild, sbStatus, statusMu, ctlKind, ctlFile,
                   proc, procStatus, rootExit, subExit, sbPc, sbCid, sbWs,
                   sbCaller, sbPolls, sbRet, dRets, dSnap, dKills, dWait4s,
                   dSleeps, nwArg, nwRet, nwCleanup, nwSpawned>>

\* createSandboxProcess: s.child = true; s.Pid.store(cmd.Process.Pid);
\* return nil.
createSandboxProcessStore ==
    /\ nwPc = "csp_store"
    /\ sbChild' = TRUE
    /\ sbPid' = 1
    /\ nwPc' = "sync"
    /\ UNCHANGED <<sbStatus, statusMu, ctlKind, ctlFile, proc, procStatus,
                   rootExit, subExit, sbPc, sbCid, sbWs, sbCaller, sbPolls,
                   sbRet, dRets, dSnap, dKills, dWait4s, dSleeps, nwArg,
                   nwRet, nwCleanup, nwSpawned>>

\* The sandbox process dies while it boots.
SandboxBootFails ==
    /\ nwPc \in {"csp_oom", "csp_usermap", "csp_store", "sync"}
    /\ proc = "running"
    /\ proc' = "zombie"
    /\ procStatus' = "exit1"
    /\ UNCHANGED <<sbPid, sbChild, sbStatus, statusMu, ctlKind, ctlFile,
                   rootExit, subExit, sbPc, sbCid, sbWs, sbCaller, sbPolls,
                   sbRet, dRets, dSnap, dKills, dWait4s, dSleeps, nwPc,
                   nwArg, nwRet, nwCleanup, nwSpawned>>

\* New: clientSyncFile.Read(b) returns the byte the booted sandbox wrote, or
\* EOF when the sandbox process is gone.
NewReadSync ==
    /\ nwPc = "sync"
    /\ IF proc = "running"
       THEN nwPc' = IF nwArg.MetricServer THEN "metrics" ELSE "release"
       ELSE NewFails
    /\ UNCHANGED <<sbPid, sbChild, sbStatus, statusMu, ctlKind, ctlFile,
                   proc, procStatus, rootExit, subExit, sbPc, sbCid, sbWs,
                   sbCaller, sbPolls, sbRet, dRets, dSnap, dKills, dWait4s,
                   dSleeps, nwArg, nwRet, nwCleanup, nwSpawned>>

\* New, conf.MetricServer set: s.call(boot.MetricsGetRegistered), which
\* fails when the sandbox cannot be reached and may fail in the sandbox.
NewGetRegisteredMetrics ==
    /\ nwPc = "metrics"
    /\ \/ CanConnect /\ nwPc' = "release"
       \/ NewFails
    /\ UNCHANGED <<sbPid, sbChild, sbStatus, statusMu, ctlKind, ctlFile,
                   proc, procStatus, rootExit, subExit, sbPc, sbCid, sbWs,
                   sbCaller, sbPolls, sbRet, dRets, dSnap, dKills, dWait4s,
                   dSleeps, nwArg, nwRet, nwCleanup, nwSpawned>>

\* New: c.Release(); return s, nil.  The deferred c.Clean() does nothing.
NewRelease ==
    /\ nwPc = "release"
    /\ nwCleanup' = "released"
    /\ nwRet' = "nil"
    /\ nwPc' = "done"
    /\ UNCHANGED <<sbPid, sbChild, sbStatus, statusMu, ctlKind, ctlFile,
                   proc, procStatus, rootExit, subExit, sbPc, sbCid, sbWs,
                   sbCaller, sbPolls, sbRet, dRets, dSnap, dKills, dWait4s,
                   dSleeps, nwArg, nwSpawned>>

\* New, on an error return: the deferred c.Clean() calls s.destroy().
NewClean ==
    /\ nwPc = "clean"
    /\ nwCleanup = "armed"
    /\ destroyStart(Destroyer)
    /\ nwCleanup' = "ran"
    /\ nwPc' = "clean_wait"
    /\ UNCHANGED <<nwArg, nwRet, nwSpawned>>

\* New, on an error return: s.destroy() has returned, its error is logged
\* and New returns its own.
NewReturnError ==
    /\ nwPc = "clean_wait"
    /\ sbPc[Destroyer] = "idle"
    /\ nwRet' = "err"
    /\ nwPc' = "done"
    /\ UNCHANGED <<sbPid, sbChild, sbStatus, statusMu, ctlKind, ctlFile,
                   proc, procStatus, rootExit, subExit, sbPc, sbCid, sbWs,
                   sbCaller, sbPolls, sbRet, dRets, dSnap, dKills, dWait4s,
                   dSleeps, nwArg, nwCleanup, nwSpawned>>

(***************************************************************************)
(* Specifications                                                          *)
(***************************************************************************)

NextAIO ==
    \/ destroyAIOContextLocked /\ UNCHANGED <<sbVars, vfsVars, ldVars, cfVars, mlVars, ceVars, nsVars, nwVars>>
    \/ Prepare /\ UNCHANGED <<sbVars, vfsVars, ldVars, cfVars, mlVars, ceVars, nsVars, nwVars>>
    \/ PopRequest /\ UNCHANGED <<sbVars, vfsVars, ldVars, cfVars, mlVars, ceVars, nsVars, nwVars>>
    \/ FinishRequest /\ UNCHANGED <<sbVars, vfsVars, ldVars, cfVars, mlVars, ceVars, nsVars, nwVars>>
    \/ WaitChannel /\ UNCHANGED <<sbVars, vfsVars, ldVars, cfVars, mlVars, ceVars, nsVars, nwVars>>
    \/ Dead /\ UNCHANGED <<sbVars, vfsVars, ldVars, cfVars, mlVars, ceVars, nsVars, nwVars>>
    \/ CancelPendingRequest /\ UNCHANGED <<sbVars, vfsVars, ldVars, cfVars, mlVars, ceVars, nsVars, nwVars>>
    \/ Drain /\ UNCHANGED <<sbVars, vfsVars, ldVars, cfVars, mlVars, ceVars, nsVars, nwVars>>

InitAIO == AIOInit /\ SandboxIdle /\ DentryIdle /\ LoaderIdle /\ ConfigIdle /\ MmapIdle /\ CompatIdle
        /\ NamespacesIdle /\ NewIdle

SpecAIO == InitAIO /\ [][NextAIO]_vars

NextSandbox ==
    \/ RootContainerExits /\ UNCHANGED <<aioVars, vfsVars, ldVars, cfVars, mlVars, ceVars, nsVars, nwVars, dcVars>>
    \/ SubcontainerExits /\ UNCHANGED <<aioVars, vfsVars, ldVars, cfVars, mlVars, ceVars, nsVars, nwVars, dcVars>>
    \/ SandboxProcessExits /\ UNCHANGED <<aioVars, vfsVars, ldVars, cfVars, mlVars, ceVars, nsVars, nwVars, dcVars>>
    \/ ParentReaps /\ UNCHANGED <<aioVars, vfsVars, ldVars, cfVars, mlVars, ceVars, nsVars, nwVars, dcVars>>
    \/ \E t \in SbThreads :
         \/ WaitConnect(t) /\ UNCHANGED <<aioVars, vfsVars, ldVars, cfVars, mlVars, ceVars, nsVars, nwVars, dcVars>>
         \/ WaitRPCReply(t) /\ UNCHANGED <<aioVars, vfsVars, ldVars, cfVars, mlVars, ceVars, nsVars, nwVars, dcVars>>
         \/ WaitRPCFails(t) /\ UNCHANGED <<aioVars, vfsVars, ldVars, cfVars, mlVars, ceVars, nsVars, nwVars, dcVars>>
         \/ WaitReturnStatus(t) /\ UNCHANGED <<aioVars, vfsVars, ldVars, cfVars, mlVars, ceVars, nsVars, nwVars, dcVars>>
         \/ waitForStoppedLock(t) /\ UNCHANGED <<aioVars, vfsVars, ldVars, cfVars, mlVars, ceVars, nsVars, nwVars, dcVars>>
         \/ waitForStoppedChild(t) /\ UNCHANGED <<aioVars, vfsVars, ldVars, cfVars, mlVars, ceVars, nsVars, nwVars, dcVars>>
         \/ waitForStoppedPoll(t) /\ UNCHANGED <<aioVars, vfsVars, ldVars, cfVars, mlVars, ceVars, nsVars, nwVars, dcVars>>
         \/ DestroyContainer(t) /\ UNCHANGED <<aioVars, vfsVars, ldVars, cfVars, mlVars, ceVars, nsVars, nwVars>>
         \/ destroyContainer(t) /\ UNCHANGED <<aioVars, vfsVars, ldVars, cfVars, mlVars, ceVars, nsVars, nwVars>>
         \/ DestroyContainerReturn(t) /\ UNCHANGED <<aioVars, vfsVars, ldVars, cfVars, mlVars, ceVars, nsVars, nwVars>>
         \/ destroyKill(t) /\ UNCHANGED <<aioVars, vfsVars, ldVars, cfVars, mlVars, ceVars, nsVars, nwVars, dcVars>>
         \/ destroyKillFails(t) /\ UNCHANGED <<aioVars, vfsVars, ldVars, cfVars, mlVars, ceVars, nsVars, nwVars, dcVars>>

InitSandbox == SandboxInit /\ AIOIdle /\ DentryIdle /\ LoaderIdle /\ ConfigIdle /\ MmapIdle /\ CompatIdle
        /\ NamespacesIdle /\ NewIdle

SpecSandbox == InitSandbox /\ [][NextSandbox]_vars

\* The sandbox as a supervisor that is not its parent sees it: loaded from
\* the state file by another runsc invocation, s.child false.  One caller of
\* Wait and the caller of destroy are enough for the polling loop.
InitSandboxDetached == InitSandbox /\ sbPid = 1 /\ ~sbChild

PollStep(t) ==
    waitForStoppedPoll(t) /\ UNCHANGED <<aioVars, vfsVars, ldVars, cfVars, mlVars, ceVars, nsVars, nwVars, dcVars>>

NextSandboxDetached ==
    \/ RootContainerExits /\ UNCHANGED <<aioVars, vfsVars, ldVars, cfVars, mlVars, ceVars, nsVars, nwVars, dcVars>>
    \/ SandboxProcessExits /\ UNCHANGED <<aioVars, vfsVars, ldVars, cfVars, mlVars, ceVars, nsVars, nwVars, dcVars>>
    \/ ParentReaps /\ UNCHANGED <<aioVars, vfsVars, ldVars, cfVars, mlVars, ceVars, nsVars, nwVars, dcVars>>
    \/ \E t \in {"w1", Destroyer} :
         \/ WaitConnect(t) /\ UNCHANGED <<aioVars, vfsVars, ldVars, cfVars, mlVars, ceVars, nsVars, nwVars, dcVars>>
         \/ WaitRPCReply(t) /\ UNCHANGED <<aioVars, vfsVars, ldVars, cfVars, mlVars, ceVars, nsVars, nwVars, dcVars>>
         \/ WaitRPCFails(t) /\ UNCHANGED <<aioVars, vfsVars, ldVars, cfVars, mlVars, ceVars, nsVars, nwVars, dcVars>>
         \/ PollStep(t)
         \/ DestroyContainer(t) /\ UNCHANGED <<aioVars, vfsVars, ldVars, cfVars, mlVars, ceVars, nsVars, nwVars>>
         \/ destroyContainer(t) /\ UNCHANGED <<aioVars, vfsVars, ldVars, cfVars, mlVars, ceVars, nsVars, nwVars>>
         \/ DestroyContainerReturn(t) /\ UNCHANGED <<aioVars, vfsVars, ldVars, cfVars, mlVars, ceVars, nsVars, nwVars>>
         \/ destroyKill(t) /\ UNCHANGED <<aioVars, vfsVars, ldVars, cfVars, mlVars, ceVars, nsVars, nwVars, dcVars>>
         \/ destroyKillFails(t) /\ UNCHANGED <<aioVars, vfsVars, ldVars, cfVars, mlVars, ceVars, nsVars, nwVars, dcVars>>

\* The goroutine that runs backoff.Retry is scheduled and its timer fires:
\* a poll that is due is made.
SpecSandboxDetached ==
    /\ InitSandboxDetached /\ [][NextSandboxDetached]_vars
    /\ \A t \in {"w1", Destroyer} : WF_vars(PollStep(t))

NextDentry ==
    \E t \in VfsThreads :
      \/ MountAt(t) /\ UNCHANGED <<aioVars, sbVars, ldVars, cfVars, mlVars, ceVars, nsVars, nwVars>>
      \/ PrepareDeleteDentry(t) /\ UNCHANGED <<aioVars, sbVars, ldVars, cfVars, mlVars, ceVars, nsVars, nwVars>>
      \/ PrepareDeleteDentryLock(t) /\ UNCHANGED <<aioVars, sbVars, ldVars, cfVars, mlVars, ceVars, nsVars, nwVars>>
      \/ AbortDeleteDentry(t) /\ UNCHANGED <<aioVars, sbVars, ldVars, cfVars, mlVars, ceVars, nsVars, nwVars>>
      \/ CommitDeleteDentry(t) /\ UNCHANGED <<aioVars, sbVars, ldVars, cfVars, mlVars, ceVars, nsVars, nwVars>>
      \/ InvalidateDentry(t) /\ UNCHANGED <<aioVars, sbVars, ldVars, cfVars, mlVars, ceVars, nsVars, nwVars>>
      \/ forgetDeadMountpoint(t) /\ UNCHANGED <<aioVars, sbVars, ldVars, cfVars, mlVars, ceVars, nsVars, nwVars>>
      \/ forgetDeadMountpointDecRef(t) /\ UNCHANGED <<aioVars, sbVars, ldVars, cfVars, mlVars, ceVars, nsVars, nwVars>>
      \/ PrepareRenameDentry(t) /\ UNCHANGED <<aioVars, sbVars, ldVars, cfVars, mlVars, ceVars, nsVars, nwVars>>
      \/ PrepareRenameLockTo(t) /\ UNCHANGED <<aioVars, sbVars, ldVars, cfVars, mlVars, ceVars, nsVars, nwVars>>
      \/ PrepareRenameLockFrom(t) /\ UNCHANGED <<aioVars, sbVars, ldVars, cfVars, mlVars, ceVars, nsVars, nwVars>>
      \/ AbortRenameDentry(t) /\ UNCHANGED <<aioVars, sbVars, ldVars, cfVars, mlVars, ceVars, nsVars, nwVars>>
      \/ CommitRenameExchangeDentry(t) /\ UNCHANGED <<aioVars, sbVars, ldVars, cfVars, mlVars, ceVars, nsVars, nwVars>>
      \/ RenameUnlockTo(t) /\ UNCHANGED <<aioVars, sbVars, ldVars, cfVars, mlVars, ceVars, nsVars, nwVars>>
      \/ CommitRenameReplaceDentry(t) /\ UNCHANGED <<aioVars, sbVars, ldVars, cfVars, mlVars, ceVars, nsVars, nwVars>>
      \/ CommitRenameReplaceTo(t) /\ UNCHANGED <<aioVars, sbVars, ldVars, cfVars, mlVars, ceVars, nsVars, nwVars>>

InitDentry == DentryInit /\ AIOIdle /\ SandboxIdle /\ LoaderIdle /\ ConfigIdle /\ MmapIdle /\ CompatIdle
        /\ NamespacesIdle /\ NewIdle

SpecDentry == InitDentry /\ [][NextDentry]_vars

NextLoader ==
    \/ TaskClone /\ UNCHANGED <<aioVars, sbVars, vfsVars, cfVars, mlVars, ceVars, nsVars, nwVars>>
    \/ run /\ UNCHANGED <<aioVars, sbVars, vfsVars, cfVars, mlVars, ceVars, nsVars, nwVars>>
    \/ runInstallSeccompFilters /\ UNCHANGED <<aioVars, sbVars, vfsVars, cfVars, mlVars, ceVars, nsVars, nwVars>>
    \/ runCreateContainerProcess /\ UNCHANGED <<aioVars, sbVars, vfsVars, cfVars, mlVars, ceVars, nsVars, nwVars>>
    \/ runStart /\ UNCHANGED <<aioVars, sbVars, vfsVars, cfVars, mlVars, ceVars, nsVars, nwVars>>
    \/ \E r \in RpcThreads :
         \/ ClientStartRoot(r) /\ UNCHANGED <<aioVars, sbVars, vfsVars, cfVars, mlVars, ceVars, nsVars, nwVars>>
         \/ WaitForStartSignal(r) /\ UNCHANGED <<aioVars, sbVars, vfsVars, cfVars, mlVars, ceVars, nsVars, nwVars>>
         \/ Run(r) /\ UNCHANGED <<aioVars, sbVars, vfsVars, cfVars, mlVars, ceVars, nsVars, nwVars>>
         \/ ClientRestore(r) /\ UNCHANGED <<aioVars, sbVars, vfsVars, cfVars, mlVars, ceVars, nsVars, nwVars>>
         \/ Checkpoint(r) /\ UNCHANGED <<aioVars, sbVars, vfsVars, cfVars, mlVars, ceVars, nsVars, nwVars>>
         \/ StateSave(r) /\ UNCHANGED <<aioVars, sbVars, vfsVars, cfVars, mlVars, ceVars, nsVars, nwVars>>
         \/ StateSaveUnpause(r) /\ UNCHANGED <<aioVars, sbVars, vfsVars, cfVars, mlVars, ceVars, nsVars, nwVars>>
         \/ RestoreNewKernel(r) /\ UNCHANGED <<aioVars, sbVars, vfsVars, cfVars, mlVars, ceVars, nsVars, nwVars>>
         \/ RestoreConfigure(r) /\ UNCHANGED <<aioVars, sbVars, vfsVars, cfVars, mlVars, ceVars, nsVars, nwVars>>
         \/ RestoreInstallSeccompFilters(r) /\ UNCHANGED <<aioVars, sbVars, vfsVars, cfVars, mlVars, ceVars, nsVars, nwVars>>
         \/ RestoreLoad(r) /\ UNCHANGED <<aioVars, sbVars, vfsVars, cfVars, mlVars, ceVars, nsVars, nwVars>>
         \/ RestoreFields(r) /\ UNCHANGED <<aioVars, sbVars, vfsVars, cfVars, mlVars, ceVars, nsVars, nwVars>>
         \/ RestoreProcesses(r) /\ UNCHANGED <<aioVars, sbVars, vfsVars, cfVars, mlVars, ceVars, nsVars, nwVars>>
         \/ createSubcontainer(r) /\ UNCHANGED <<aioVars, sbVars, vfsVars, cfVars, mlVars, ceVars, nsVars, nwVars>>
         \/ startSubcontainer(r) /\ UNCHANGED <<aioVars, sbVars, vfsVars, cfVars, mlVars, ceVars, nsVars, nwVars>>
         \/ startSubcontainerCreate(r) /\ UNCHANGED <<aioVars, sbVars, vfsVars, cfVars, mlVars, ceVars, nsVars, nwVars>>
         \/ executeAsync(r) /\ UNCHANGED <<aioVars, sbVars, vfsVars, cfVars, mlVars, ceVars, nsVars, nwVars>>
         \/ executeAsyncCreate(r) /\ UNCHANGED <<aioVars, sbVars, vfsVars, cfVars, mlVars, ceVars, nsVars, nwVars>>
         \/ signal(r) /\ UNCHANGED <<aioVars, sbVars, vfsVars, cfVars, mlVars, ceVars, nsVars, nwVars>>
         \/ signalAllProcesses(r) /\ UNCHANGED <<aioVars, sbVars, vfsVars, cfVars, mlVars, ceVars, nsVars, nwVars>>
         \/ SendContainerSignal(r) /\ UNCHANGED <<aioVars, sbVars, vfsVars, cfVars, mlVars, ceVars, nsVars, nwVars>>
         \/ SendContainerSignalDeliver(r) /\ UNCHANGED <<aioVars, sbVars, vfsVars, cfVars, mlVars, ceVars, nsVars, nwVars>>
         \/ Unpause(r) /\ UNCHANGED <<aioVars, sbVars, vfsVars, cfVars, mlVars, ceVars, nsVars, nwVars>>

InitLoader == LoaderInit /\ AIOIdle /\ SandboxIdle /\ DentryIdle /\ ConfigIdle /\ MmapIdle /\ CompatIdle
        /\ NamespacesIdle /\ NewIdle

SpecLoader == InitLoader /\ [][NextLoader]_vars

NextConfig ==
    \/ \E name \in OverrideNames, value \in OverrideValues, force \in BOOLEAN :
         Override(name, value, force) /\ UNCHANGED <<aioVars, sbVars, vfsVars, ldVars, mlVars, ceVars, nsVars, nwVars>>
    \/ createSandboxProcess /\ UNCHANGED <<aioVars, sbVars, vfsVars, ldVars, mlVars, ceVars, nsVars, nwVars>>

InitConfig == ConfigInit /\ AIOIdle /\ SandboxIdle /\ DentryIdle /\ LoaderIdle /\ MmapIdle /\ CompatIdle
        /\ NamespacesIdle /\ NewIdle

SpecConfig == InitConfig /\ [][NextConfig]_vars

NextMmap ==
    NewMmapLayout /\ UNCHANGED <<aioVars, sbVars, vfsVars, ldVars, cfVars, ceVars, nsVars, nwVars>>

InitMmap ==
    MmapInit /\ AIOIdle /\ SandboxIdle /\ DentryIdle /\ LoaderIdle /\ ConfigIdle
        /\ CompatIdle
        /\ NamespacesIdle /\ NewIdle

SpecMmap == InitMmap /\ [][NextMmap]_vars

NextCompat ==
    \E sysnr \in Sysnrs, regs \in ArgRegs :
        emitUnimplementedSyscall(sysnr, regs)
            /\ UNCHANGED <<aioVars, sbVars, vfsVars, ldVars, cfVars, mlVars, nsVars, nwVars>>

InitCompat ==
    CompatInit /\ AIOIdle /\ SandboxIdle /\ DentryIdle /\ LoaderIdle /\ ConfigIdle
        /\ MmapIdle
        /\ NamespacesIdle /\ NewIdle

SpecCompat == InitCompat /\ [][NextCompat]_vars

NextNamespaces ==
    createSandboxProcessNamespaces
        /\ UNCHANGED <<aioVars, sbVars, vfsVars, ldVars, cfVars, mlVars, ceVars,
                     nwVars>>

InitNamespaces ==
    NamespacesInit /\ AIOIdle /\ SandboxIdle /\ DentryIdle /\ LoaderIdle
        /\ ConfigIdle /\ MmapIdle /\ CompatIdle /\ NewIdle

SpecNamespaces == InitNamespaces /\ [][NextNamespaces]_vars

NextNew ==
    \/ New /\ UNCHANGED <<aioVars, vfsVars, ldVars, cfVars, mlVars, ceVars, nsVars, dcVars>>
    \/ NewInitConfig /\ UNCHANGED <<aioVars, vfsVars, ldVars, cfVars, mlVars, ceVars, nsVars, dcVars>>
    \/ NewPipe /\ UNCHANGED <<aioVars, vfsVars, ldVars, cfVars, mlVars, ceVars, nsVars, dcVars>>
    \/ createControlSocket /\ UNCHANGED <<aioVars, vfsVars, ldVars, cfVars, mlVars, ceVars, nsVars, dcVars>>
    \/ createSandboxProcessArgs /\ UNCHANGED <<aioVars, vfsVars, ldVars, cfVars, mlVars, ceVars, nsVars, dcVars>>
    \/ StartInNS /\ UNCHANGED <<aioVars, vfsVars, ldVars, cfVars, mlVars, ceVars, nsVars, dcVars>>
    \/ GetOOMScoreAdj /\ UNCHANGED <<aioVars, vfsVars, ldVars, cfVars, mlVars, ceVars, nsVars, dcVars>>
    \/ SetUserMappings /\ UNCHANGED <<aioVars, vfsVars, ldVars, cfVars, mlVars, ceVars, nsVars, dcVars>>
    \/ createSandboxProcessStore /\ UNCHANGED <<aioVars, vfsVars, ldVars, cfVars, mlVars, ceVars, nsVars, dcVars>>
    \/ SandboxBootFails /\ UNCHANGED <<aioVars, vfsVars, ldVars, cfVars, mlVars, ceVars, nsVars, dcVars>>
    \/ NewReadSync /\ UNCHANGED <<aioVars, vfsVars, ldVars, cfVars, mlVars, ceVars, nsVars, dcVars>>
    \/ NewGetRegisteredMetrics /\ UNCHANGED <<aioVars, vfsVars, ldVars, cfVars, mlVars, ceVars, nsVars, dcVars>>
    \/ NewRelease /\ UNCHANGED <<aioVars, vfsVars, ldVars, cfVars, mlVars, ceVars, nsVars, dcVars>>
    \/ NewClean /\ UNCHANGED <<aioVars, vfsVars, ldVars, cfVars, mlVars, ceVars, nsVars, dcVars>>
    \/ NewReturnError /\ UNCHANGED <<aioVars, vfsVars, ldVars, cfVars, mlVars, ceVars, nsVars, dcVars>>
    \/ destroyKill(Destroyer) /\ UNCHANGED <<aioVars, vfsVars, ldVars, cfVars, mlVars, ceVars, nsVars, nwVars, dcVars>>
    \/ destroyKillFails(Destroyer) /\ UNCHANGED <<aioVars, vfsVars, ldVars, cfVars, mlVars, ceVars, nsVars, nwVars, dcVars>>
    \/ waitForStoppedLock(Destroyer) /\ UNCHANGED <<aioVars, vfsVars, ldVars, cfVars, mlVars, ceVars, nsVars, nwVars, dcVars>>
    \/ waitForStoppedChild(Destroyer) /\ UNCHANGED <<aioVars, vfsVars, ldVars, cfVars, mlVars, ceVars, nsVars, nwVars, dcVars>>

\* Before New: the Sandbox has no process (Pid 0) and no control socket.
InitNew ==
    NewInit /\ SandboxInit /\ sbPid = 0 /\ AIOIdle /\ DentryIdle /\ LoaderIdle
        /\ ConfigIdle /\ MmapIdle /\ CompatIdle /\ NamespacesIdle

SpecNew == InitNew /\ [][NextNew]_vars

NextContainers ==
    \/ TaskClone /\ UNCHANGED <<aioVars, sbVars, vfsVars, cfVars, mlVars, ceVars, nsVars, nwVars>>
    \/ TaskExit /\ UNCHANGED <<aioVars, sbVars, vfsVars, cfVars, mlVars, ceVars, nsVars, nwVars>>
    \/ \E r \in RpcThreads :
         \/ createSubcontainer(r) /\ UNCHANGED <<aioVars, sbVars, vfsVars, cfVars, mlVars, ceVars, nsVars, nwVars>>
         \/ startSubcontainer(r) /\ UNCHANGED <<aioVars, sbVars, vfsVars, cfVars, mlVars, ceVars, nsVars, nwVars>>
         \/ startSubcontainerCreate(r) /\ UNCHANGED <<aioVars, sbVars, vfsVars, cfVars, mlVars, ceVars, nsVars, nwVars>>
         \/ executeAsync(r) /\ UNCHANGED <<aioVars, sbVars, vfsVars, cfVars, mlVars, ceVars, nsVars, nwVars>>
         \/ executeAsyncCreate(r) /\ UNCHANGED <<aioVars, sbVars, vfsVars, cfVars, mlVars, ceVars, nsVars, nwVars>>
         \/ destroySubcontainer(r) /\ UNCHANGED <<aioVars, sbVars, vfsVars, cfVars, mlVars, ceVars, nsVars, nwVars>>
         \/ destroySubcontainerTasks(r) /\ UNCHANGED <<aioVars, sbVars, vfsVars, cfVars, mlVars, ceVars, nsVars, nwVars>>
         \/ destroySubcontainerRemove(r) /\ UNCHANGED <<aioVars, sbVars, vfsVars, cfVars, mlVars, ceVars, nsVars, nwVars>>
         \/ startGoferMonitor(r) /\ UNCHANGED <<aioVars, sbVars, vfsVars, cfVars, mlVars, ceVars, nsVars, nwVars>>
         \/ waitPID(r) /\ UNCHANGED <<aioVars, sbVars, vfsVars, cfVars, mlVars, ceVars, nsVars, nwVars>>
         \/ waitPIDDelete(r) /\ UNCHANGED <<aioVars, sbVars, vfsVars, cfVars, mlVars, ceVars, nsVars, nwVars>>
         \/ signalDeliverToAllProcesses(r) /\ UNCHANGED <<aioVars, sbVars, vfsVars, cfVars, mlVars, ceVars, nsVars, nwVars>>
         \/ signalAllProcesses(r) /\ UNCHANGED <<aioVars, sbVars, vfsVars, cfVars, mlVars, ceVars, nsVars, nwVars>>
         \/ SendContainerSignal(r) /\ UNCHANGED <<aioVars, sbVars, vfsVars, cfVars, mlVars, ceVars, nsVars, nwVars>>
         \/ SendContainerSignalDeliver(r) /\ UNCHANGED <<aioVars, sbVars, vfsVars, cfVars, mlVars, ceVars, nsVars, nwVars>>
         \/ Unpause(r) /\ UNCHANGED <<aioVars, sbVars, vfsVars, cfVars, mlVars, ceVars, nsVars, nwVars>>

InitContainers ==
    LoaderBooted /\ AIOIdle /\ SandboxIdle /\ DentryIdle /\ ConfigIdle /\ MmapIdle
        /\ CompatIdle /\ NamespacesIdle /\ NewIdle

SpecContainers == InitContainers /\ [][NextContainers]_vars

\* A step of the boot goroutine in Loader.Run: a step of Loader.run, or
\* the send of its result to the RPC that waits for it.
BootStep ==
    /\ \/ run
       \/ runInstallSeccompFilters
       \/ runCreateContainerProcess
       \/ runStart
       \/ \E r \in RpcThreads : Run(r)
    /\ UNCHANGED <<aioVars, sbVars, vfsVars, cfVars, mlVars, ceVars, nsVars, nwVars>>

NextStart ==
    \/ run /\ UNCHANGED <<aioVars, sbVars, vfsVars, cfVars, mlVars, ceVars, nsVars, nwVars>>
    \/ runInstallSeccompFilters /\ UNCHANGED <<aioVars, sbVars, vfsVars, cfVars, mlVars, ceVars, nsVars, nwVars>>
    \/ runCreateContainerProcess /\ UNCHANGED <<aioVars, sbVars, vfsVars, cfVars, mlVars, ceVars, nsVars, nwVars>>
    \/ runStart /\ UNCHANGED <<aioVars, sbVars, vfsVars, cfVars, mlVars, ceVars, nsVars, nwVars>>
    \/ \E r \in RpcThreads :
         \/ StartRoot(r) /\ UNCHANGED <<aioVars, sbVars, vfsVars, cfVars, mlVars, ceVars, nsVars, nwVars>>
         \/ WaitForStartSignal(r) /\ UNCHANGED <<aioVars, sbVars, vfsVars, cfVars, mlVars, ceVars, nsVars, nwVars>>
         \/ Run(r) /\ UNCHANGED <<aioVars, sbVars, vfsVars, cfVars, mlVars, ceVars, nsVars, nwVars>>
         \/ Restore(r) /\ UNCHANGED <<aioVars, sbVars, vfsVars, cfVars, mlVars, ceVars, nsVars, nwVars>>
         \/ RestoreNewKernel(r) /\ UNCHANGED <<aioVars, sbVars, vfsVars, cfVars, mlVars, ceVars, nsVars, nwVars>>
         \/ RestoreConfigure(r) /\ UNCHANGED <<aioVars, sbVars, vfsVars, cfVars, mlVars, ceVars, nsVars, nwVars>>
         \/ RestoreInstallSeccompFilters(r) /\ UNCHANGED <<aioVars, sbVars, vfsVars, cfVars, mlVars, ceVars, nsVars, nwVars>>
         \/ RestoreLoad(r) /\ UNCHANGED <<aioVars, sbVars, vfsVars, cfVars, mlVars, ceVars, nsVars, nwVars>>
         \/ RestoreFields(r) /\ UNCHANGED <<aioVars, sbVars, vfsVars, cfVars, mlVars, ceVars, nsVars, nwVars>>
         \/ RestoreProcesses(r) /\ UNCHANGED <<aioVars, sbVars, vfsVars, cfVars, mlVars, ceVars, nsVars, nwVars>>

InitStart ==
    LoaderInit /\ AIOIdle /\ SandboxIdle /\ DentryIdle /\ ConfigIdle /\ MmapIdle
        /\ CompatIdle /\ NamespacesIdle /\ NewIdle

\* Any number of StartRoot and Restore calls, in any order. The boot
\* goroutine is not starved: it is one goroutine of the Go scheduler, and
\* the code it runs in Loader.Run does not wait for the clients.
SpecStart == InitStart /\ [][NextStart]_vars /\ WF_vars(BootStep)

(***************************************************************************)
(* Properties of the Sandbox.                                              *)
(***************************************************************************)

\* The destroy thread is between calls and its last two calls are the ones
\* recorded at the end of dRets.
TwoDestroysDone == sbPc[Destroyer] = "idle" /\ Len(dRets) >= 2

\* C1: a destroy call that follows a destroy call that returned nil returns
\* nil, kills no process, makes no wait4 call and no backoff sleep, and
\* leaves Pid, child, status, the control socket file and the sandbox process
\* as they were when it was called.
C1_SecondDestroyIsNoOp ==
    (TwoDestroysDone /\ dRets[Len(dRets) - 1] = "nil") =>
        (dRets[Len(dRets)] = "nil" /\ SandboxSnapshot = dSnap)

C1_Witness ==
    /\ TwoDestroysDone /\ dRets[Len(dRets) - 1] = "nil" /\ dRets[Len(dRets)] = "nil"
    /\ sbChild /\ dKills = 1 /\ dWait4s = 1 /\ sbPid = 0 /\ proc = "reaped"

\* The Wait(cid) callers on the root container that have returned a status.
RootWaitersWithStatus ==
    {t \in Waiters : sbPc[t] = "done" /\ IsRootContainer(sbCid[t])
                      /\ sbRet[t].err = "nil"}

\* C2 (as stated): all Wait callers on the root container that return a
\* status return the same status.
C2_AllWaitersSameStatus ==
    \A t, u \in RootWaitersWithStatus : sbRet[t].st = sbRet[u].st

\* C2 (amended): the callers whose Wait RPC succeeded all return the root
\* container's exit status reported by the sentry, and the callers that fell
\* back to waiting on the sandbox process all return the wait status of that
\* process, cached in s.status; so two callers that took the same path return
\* the same status.
C2_WaitersSameStatusPerPath ==
    /\ \A t \in RootWaitersWithStatus :
          /\ sbRet[t].via = "rpc" => sbRet[t].st = rootExit
          /\ sbRet[t].via = "fallback" =>
                (sbChild /\ sbPid = 0 /\ sbRet[t].st = sbStatus
                 /\ sbStatus = procStatus)
    /\ \A t, u \in RootWaitersWithStatus :
          sbRet[t].via = sbRet[u].via => sbRet[t].st = sbRet[u].st

C2_Witness ==
    /\ RootWaitersWithStatus = Waiters
    /\ \A t \in Waiters : sbRet[t].via = "fallback" /\ sbRet[t].st = "exit1"

\* C18: when DestroyContainer returns, it returns an error only if
\* destroyContainer failed and IsRunning() is true at that moment; if the
\* sandbox is not running it returns nil whatever destroyContainer
\* returned, on the first call and on every later one.
C18_DestroyContainerSuppressesErrors ==
    [][(Len(dcRets') > Len(dcRets)) =>
         ((dcRets'[Len(dcRets')] = "err") <=>
              (destroyContainerErr # "nil" /\ IsRunning))]_vars

\* A second DestroyContainer call has returned nil although its
\* destroyContainer had failed: the sandbox was not running any more.
C18_Witness ==
    /\ Len(dcRets) = 2
    /\ dcRets[2] = "nil"
    /\ dcErr = "err"
    /\ dcPc = "idle"
    /\ ~IsRunning

\* waitForStopped returns err ("nil" or "err") from its polling loop to the
\* call site that thread t came from.
PollReturns(t, err) ==
    /\ sbPc'[t] # "wfs_poll"
    /\ sbPolls'[t] = 0
    /\ sbCaller[t] = "destroy" => dRets' = Append(dRets, err)
    /\ sbCaller[t] = "rpc" => sbRet'[t].err = err

\* C29: when the supervisor is not the sandbox's parent, every poll of
\* waitForStopped that finds the sandbox not running returns nil at once, a
\* poll that finds it running is repeated while the budget lasts and returns
\* an error once the budget is used up; the polls of one call never exceed
\* the budget, and every call that is polling eventually returns.
C29_PollingIsBounded ==
    /\ [](\A t \in SbThreads : sbPolls[t] <= PollBudget)
    /\ [][\A t \in SbThreads :
            (sbPc[t] = "wfs_poll"
             /\ (sbPc'[t] # "wfs_poll" \/ sbPolls'[t] # sbPolls[t])) =>
                IF ~IsRunning THEN PollReturns(t, "nil")
                ELSE IF sbPolls[t] < PollBudget
                THEN sbPc'[t] = "wfs_poll" /\ sbPolls'[t] = sbPolls[t] + 1
                ELSE PollReturns(t, "err")]_vars
    /\ \A t \in SbThreads : (sbPc[t] = "wfs_poll") ~> (sbPc[t] # "wfs_poll")

\* destroy, on a sandbox that is not a child of the caller, has polled for
\* the whole budget while the sandbox kept running, and waitForStopped has
\* returned an error.
C29_Witness ==
    /\ ~sbChild /\ IsRunning
    /\ dSleeps >= PollBudget
    /\ Len(dRets) > 0 /\ dRets[Len(dRets)] = "err"
    /\ sbPc[Destroyer] = "idle"

\* C30: when New has returned an error, its cleanup has run and has
\* destroyed what New had created: the sandbox process that was spawned, if
\* any, has been killed and waited for, so that none is left; and the
\* cleanup is released, the sandbox left as it is, exactly when New returns
\* nil.
C30_FailedNewDestroysSandbox ==
    /\ (nwPc = "done" /\ nwRet = "err") =>
          (/\ nwCleanup = "ran"
           /\ nwSpawned => (proc = "reaped" /\ dKills + dWait4s > 0))
    /\ (nwCleanup = "released") <=> (nwPc = "done" /\ nwRet = "nil")

(***************************************************************************)
(* Properties of the Dentry delete sequence.                               *)
(***************************************************************************)

\* C5: after a successful PrepareDeleteDentry(d) the caller holds d.mu at
\* every state until its AbortDeleteDentry(d) or CommitDeleteDentry(d); that
\* call releases d.mu, and releases a mutex that was locked (one unlock, no
\* fatal unlock of an unlocked mutex); the caller holds no dentry mutex
\* before the prepare has locked it, nor after the abort or commit.
C5_DeleteHoldsMutexExactlyAcrossPair ==
    /\ [](\A t \in VfsThreads :
            vPc[t] = "delete_prepared" => dMu[vArg[t].d] = t)
    /\ [](\A t \in VfsThreads :
            vPc[t] \in {"idle", "pd_lock", "forget"} =>
                \A d \in Dentries : dMu[d] # t)
    /\ [][\A t \in VfsThreads :
            (vPc[t] = "delete_prepared" /\ vPc'[t] # "delete_prepared") =>
                (/\ dMu[vArg[t].d] = t
                 /\ dMu'[vArg[t].d] = "free"
                 /\ ~vFatal')]_vars
    /\ [][\A t \in VfsThreads :
            (vPc[t] # "delete_prepared" /\ vPc'[t] = "delete_prepared") =>
                (dMu[vArg[t].d] = "free" /\ dMu'[vArg[t].d] = t)]_vars

\* One thread has gone through prepare-delete and commit of a dentry, which
\* is dead and unlocked, while another thread is between its own successful
\* prepare and its abort or commit, holding the mutex of its dentry.
C5_Witness ==
    \E t, u \in VfsThreads :
        /\ t # u
        /\ vArg[t].op = "delete" /\ vRet[t] = "nil" /\ vPc[t] = "idle"
        /\ dDead[vArg[t].d] /\ dMu[vArg[t].d] = "free"
        /\ vArg[u].op = "delete" /\ vPc[u] = "delete_prepared"
        /\ dMu[vArg[u].d] = u

\* A thread takes the mutex of dentry d in this step.
AcquiresDentry(t, d) == dMu[d] # t /\ dMu'[d] = t

WaitsForDentry(t) ==
    IF vPc[t] \in {"pd_lock", "pr_lock_from"} THEN vArg[t].d
    ELSE IF vPc[t] = "pr_lock_to" THEN vArg[t].to
    ELSE NilDentry

WaitsFor(t) ==
    IF WaitsForDentry(t) # NilDentry THEN dMu[WaitsForDentry(t)]
    ELSE IF vPc[t] = "forget" THEN mountMu
    ELSE "free"

\* C25: there is never a set of threads in which every thread is blocked on
\* a mutex held by a thread of the set, with deletes and renames prepared,
\* aborted and committed concurrently on the same dentries.
C25_NoCircularWait ==
    \A S \in SUBSET VfsThreads :
        S # {} => \E t \in S : WaitsFor(t) \notin S

\* rename(a, b) has been prepared by one thread while the other thread, in
\* PrepareRenameDentry(b, a), is blocked on a mutex the first one holds.
C25_Witness ==
    \E t, u \in VfsThreads :
        /\ t # u
        /\ vPc[t] = "rename_prepared" /\ vArg[t].to # NilDentry
        /\ vPc[u] = "pr_lock_to"
        /\ vArg[u].d = vArg[t].to /\ vArg[u].to = vArg[t].d
        /\ WaitsFor(u) = t

\* Thread t holds vfs.mountMu or the mutex of a dentry.
HoldsVfsLock(t) == mountMu = t \/ \E d \in Dentries : dMu[d] = t

\* C31: InvalidateDentry marks the dentry dead and calls DecRef on nothing:
\* when the dentry is a mount point it returns one reference for each mount
\* it unmounted, when not it returns none.  Every DecRef the dentry
\* operations make is made by a commit, by a thread that holds neither
\* vfs.mountMu nor a dentry mutex.
C31_InvalidateReturnsReferences ==
    [][\A t \in VfsThreads :
         /\ (vPc[t] = "idle" /\ vOps'[t] # vOps[t]
             /\ vArg'[t].op = "invalidate") =>
               (/\ dDead'[vArg'[t].d]
                /\ nDecRefs' = nDecRefs
                /\ vPc'[t] = "idle" => vRcs'[t] = 0)
         /\ (vPc[t] = "forget" /\ vPc'[t] # "forget"
             /\ vArg[t].op = "invalidate") =>
               (/\ vPc'[t] = "idle"
                /\ vRcs'[t] = MountsOn(vArg[t].victim)
                /\ \A ns \in Namespaces : mnt'[ns][vArg[t].victim] = 0
                /\ nDecRefs' = nDecRefs)
         /\ (vPc[t] = "decref" /\ vPc'[t] # "decref") =>
               (/\ vArg[t].op # "invalidate"
                /\ ~HoldsVfsLock(t)
                /\ nDecRefs' = nDecRefs + vRcs[t])
         /\ (nDecRefs' # nDecRefs) =>
               \E u \in VfsThreads : vPc[u] = "decref" /\ vPc'[u] = "idle"]_vars

\* InvalidateDentry, called on a dentry with two mounts on it, has returned
\* their two references; the dentry is dead, nothing is mounted on it and
\* no DecRef was made.
C31_Witness ==
    \E t \in VfsThreads :
        /\ vArg[t].op = "invalidate" /\ vPc[t] = "idle"
        /\ vRcs[t] = 2 /\ nDecRefs = 0
        /\ dDead[vArg[t].d] /\ ~isMounted(vArg[t].d)

\* The program points at which a thread is about to lock vfs.mountMu: the
\* first step of PrepareDeleteDentry and PrepareRenameDentry, taken by an
\* idle thread, and the first step of forgetDeadMountpoint.
AboutToLockMountMu(t) == vPc[t] \in {"idle", "forget"}

\* C32: vfs.mountMu is locked before dentry mutexes, never after: a thread
\* that is about to lock vfs.mountMu in a prepare or in forgetDeadMountpoint
\* holds no dentry mutex, and no step gives vfs.mountMu to a thread that
\* holds one.
C32_MountMuBeforeDentryMu ==
    /\ [](\A t \in VfsThreads :
            AboutToLockMountMu(t) => \A d \in Dentries : dMu[d] # t)
    /\ [][\A t \in VfsThreads :
            (mountMu # t /\ mountMu' = t) => \A d \in Dentries : dMu[d] # t]_vars

\* A rename has replaced a dentry that is a mount point in another
\* namespace: the thread is about to enter forgetDeadMountpoint for it, both
\* dentry mutexes released, while the other thread holds vfs.mountMu.
C32_Witness ==
    \E t, u \in VfsThreads :
        /\ vArg[t].op = "rename" /\ vPc[t] = "forget"
        /\ isMounted(vArg[t].to) /\ dDead[vArg[t].to]
        /\ \A d \in Dentries : dMu[d] # t
        /\ u # t /\ mountMu = u

(***************************************************************************)
(* Properties of the Loader.                                               *)
(***************************************************************************)

\* C6: while a DeliverToAllProcesses signal is being delivered, from before
\* SendContainerSignal enumerates the container's thread groups until it
\* has sent the signal to them, the kernel is paused; and when delivery has
\* finished every task of the container has the signal, whatever was
\* creating tasks in the meantime.
C6_PausedAcrossSignalAll ==
    \A r \in RpcThreads :
        /\ (rPc[r] \in {"sig_send", "sig_deliver", "sig_unpause"}) =>
               (kPaused > 0)
        /\ (rPc[r] = "sig_unpause") =>
               (\A i \in TasksOf(rArg[r].cid) : tasks[i].sig)

\* A signal has been delivered to all processes of a container of a started
\* kernel in which an application task had created a second task; the
\* kernel is still paused.
C6_Witness ==
    \E r \in RpcThreads :
        /\ rPc[r] = "sig_unpause"
        /\ kStarted /\ kPaused > 0
        /\ Cardinality(TasksOf(rArg[r].cid)) >= 2
        /\ \A i \in TasksOf(rArg[r].cid) : tasks[i].sig

\* Application code can run: a task exists in the kernel, a state file has
\* been loaded into it, or it has been started.
ApplicationCanRun ==
    \/ \E i \in TaskIds : tasks[i].st = "alive"
    \/ kLoaded
    \/ kStarted

C12_PrepareDeleteContract ==
    /\ [][\A t \in VfsThreads :
            (vOps'[t] # vOps[t] /\ vArg'[t].op = "delete") =>
                IF mnt[vArg'[t].ns][vArg'[t].d] # 0
                THEN /\ vRet'[t] = "EBUSY"
                     /\ vPc'[t] = "idle"
                     /\ mountMu' # t
                     /\ \A e \in Dentries : dMu'[e] # t
                ELSE /\ vRet'[t] # "EBUSY"
                     /\ vPc'[t] = "pd_lock"]_vars
    /\ [][\A t \in VfsThreads :
            (vPc[t] = "pd_lock" /\ vPc'[t] # "pd_lock") =>
                (/\ vPc'[t] = "delete_prepared"
                 /\ vRet'[t] = "nil"
                 /\ dMu'[vArg[t].d] = t
                 /\ mountMu' # t
                 /\ mnt'[vArg[t].ns][vArg[t].d] = 0)]_vars

\* One thread's PrepareDeleteDentry has returned EBUSY for a dentry that
\* its namespace has a mount on, and the thread holds no lock; the other
\* thread's call, for a dentry without mount in its namespace, has returned
\* nil and the thread holds the dentry's mutex.
C12_Witness ==
    \E t, u \in VfsThreads :
        /\ t # u
        /\ vArg[t].op = "delete" /\ vRet[t] = "EBUSY" /\ vPc[t] = "idle"
        /\ mnt[vArg[t].ns][vArg[t].d] # 0
        /\ mountMu # t /\ \A e \in Dentries : dMu[e] # t
        /\ vArg[u].op = "delete" /\ vRet[u] = "nil"
        /\ vPc[u] = "delete_prepared"
        /\ dMu[vArg[u].d] = u /\ mnt[vArg[u].ns][vArg[u].d] = 0

\* C13: the dead flag of a dentry, once set, stays set: no step of any
\* operation, on that dentry or another, clears it.
C13_DeadIsPermanent ==
    [][\A d \in Dentries : dDead[d] => dDead'[d]]_vars

\* A dentry is dead, and a deletion of it that was prepared after it died
\* is in progress, about to be aborted or committed.
C13_Witness ==
    \E t \in VfsThreads :
        /\ vPc[t] = "delete_prepared"
        /\ dDead[vArg[t].d]
        /\ dMu[vArg[t].d] = t

\* C14: a Checkpoint call on a sandbox configured with host networking
\* returns an error at once: it does not pause the kernel and does not
\* start a save, so no state is ever saved in such a sandbox.
C14_CheckpointRefusedWithHostNetwork ==
    /\ [](confNetworkHost =>
            (/\ nSaved = 0
             /\ \A r \in RpcThreads :
                   /\ rPc[r] \notin {"ck_save", "ck_unpause"}
                   /\ (rArg[r].op = "Checkpoint") => (rRet[r] = "err")))
    /\ [][\A r \in RpcThreads :
            (confNetworkHost /\ rArg'[r].op = "Checkpoint" /\ rArg'[r] # rArg[r])
                => (kPaused' = kPaused /\ rPc'[r] = "idle")]_vars

\* With host networking configured, the root container is running and a
\* Checkpoint call has returned its error; the kernel is not paused.
C14_Witness ==
    \E r \in RpcThreads :
        /\ confNetworkHost /\ kStarted
        /\ rArg[r].op = "Checkpoint" /\ rPc[r] = "idle" /\ rRet[r] = "err"
        /\ kPaused = 0 /\ nSaved = 0

\* C15: a Restore call with no file or with more than two files returns an
\* error and touches nothing; a call with one file is accepted, going on to
\* pause the kernel; a call with two files is accepted too, unless the dup
\* of the device file fails.
C15_RestoreFileCount ==
    [][\A r \in RpcThreads :
         (~startIssued /\ startIssued' /\ rArg'[r].op = "Restore") =>
             (/\ (rArg'[r].files \notin {1, 2}) =>
                    (/\ rPc'[r] = "idle" /\ rRet'[r] = "err"
                     /\ kPaused' = kPaused)
              /\ (rArg'[r].files = 1) =>
                    (rPc'[r] = "rs_build" /\ rRet'[r] # "err")
              /\ (rArg'[r].files = 2) =>
                    (\/ rPc'[r] = "rs_build" /\ rRet'[r] # "err"
                     \/ rPc'[r] = "idle" /\ rRet'[r] = "err"))]_vars

\* A Restore called with two files has returned nil and the restored
\* kernel is running.
C15_Witness ==
    \E r \in RpcThreads :
        /\ rArg[r].op = "Restore" /\ rArg[r].files = 2
        /\ rPc[r] = "idle" /\ rRet[r] = "nil"
        /\ kStarted /\ kLoaded

\* C16: a Restore whose state file is empty never gets past the test of
\* the file's size: it returns an error, and it neither installs the
\* filters nor loads a state into the kernel.
C16_EmptyFileRejected ==
    \A r \in RpcThreads :
        (rArg[r].op = "Restore" /\ rArg[r].size = 0) =>
            (/\ rPc[r] \in {"idle", "rs_build", "rs_config"}
             /\ (rPc[r] = "idle") => (rRet[r] = "err")
             /\ ~kLoaded
             /\ seccomp = "none")

\* A Restore with a right number of files, the first of them empty, has
\* built the new kernel and then returned an error; nothing was loaded.
C16_Witness ==
    \E r \in RpcThreads :
        /\ rArg[r].op = "Restore" /\ rArg[r].size = 0
        /\ rArg[r].files \in {1, 2}
        /\ rPc[r] = "idle" /\ rRet[r] = "err"
        /\ kPaused = 0 /\ ~kLoaded /\ ~lRestore

C26_BookkeepingReplacedTogether ==
    /\ [][(lK' # lK) =>
            (/\ lRestore'
             /\ \A c \in LoaderCids : processes'[c].present <=> (c = "root")
             /\ processes'["root"].tg = kGlobalInit'
             /\ kGlobalInit' # NilTG)]_vars
    /\ [](lK = "restored" => lRestore)

\* The filters installSeccompFilters leaves when it returns nil.
SeccompAfterInstall == IF confDisableSeccomp THEN "reported" ELSE "installed"

C3_OutstandingIsPreparedMinusPoppedMinusCancelled ==
    outstanding = nPrepared - nPopped - nCancelled

\* C3 (amended): outstanding equals the successful Prepare calls minus the
\* requests popped by PopRequest minus the CancelPendingRequest calls minus
\* the completed results dropped by Drain.
C3_OutstandingAccounting ==
    outstanding = nPrepared - nPopped - nCancelled - nDrained

C3_Witness ==
    /\ nPopped > 0 /\ nCancelled > 0 /\ nDrained > 0
    /\ outstanding = 0

\* dead && outstanding == 0, the condition checkForDone tests.
DoneCond == dead /\ outstanding = 0

\* C4: requestReady is closed at most once, it is closed (and the field nil)
\* exactly in the states where dead && outstanding == 0, and the close is made
\* by the very step that makes dead && outstanding == 0 true.
C4_ClosedOnceWhenDone ==
    /\ [](/\ chanCloses <= 1
          /\ ((chanCloses = 1) <=> DoneCond)
          /\ ((requestReady = "nil") <=> (chanCloses = 1)))
    /\ [][(chanCloses' # chanCloses) <=> (~DoneCond /\ DoneCond')]_vars

C4_Witness ==
    /\ aioOp = "Drain" /\ nDrained > 0
    /\ chanCloses = 1 /\ requestReady = "nil"

\* C8: Prepare returns EINVAL on a dead context and EAGAIN on a live one that
\* is at capacity, leaving outstanding unchanged in both cases; otherwise it
\* returns nil and outstanding grows by exactly one.
C8_PrepareContract ==
    [][(aioOp' = "Prepare") =>
        (/\ (dead => (aioRet' = "EINVAL" /\ outstanding' = outstanding))
         /\ ((~dead /\ outstanding = maxOutstanding) =>
                (aioRet' = "EAGAIN" /\ outstanding' = outstanding))
         /\ ((~dead /\ outstanding # maxOutstanding) =>
                (aioRet' = "nil" /\ outstanding' = outstanding + 1)))]_vars

C8_Witness ==
    /\ aioOp = "Prepare" /\ aioRet = "EAGAIN"
    /\ nPrepared > 0 /\ outstanding = maxOutstanding

\* C9 (as stated): outstanding has the same value after Drain as before it.
C9_DrainLeavesOutstanding ==
    [][aioOp' = "Drain" => outstanding' = outstanding]_vars

\* C9 (amended): a Drain that returns drops every completed result and lowers
\* outstanding by the number of results it dropped, so the number of pending
\* requests (outstanding minus queued results) stays as it was; when
\* outstanding is 0 it changes neither outstanding nor the results.
C9_DrainEffect ==
    [][(aioOp' = "Drain" /\ ~aioPanic') =>
        (/\ ((outstanding = 0) => UNCHANGED <<outstanding, results>>)
         /\ ((outstanding # 0) =>
               (results' = <<>> /\ outstanding' = outstanding - Len(results)))
         /\ outstanding' - Len(results') = outstanding - Len(results))]_vars

C9_Witness ==
    /\ aioOp = "Drain" /\ aioRet = "nil"
    /\ nDrained > 0 /\ outstanding > 0 /\ results = <<>>

\* C10: outstanding never wraps below zero, and PopRequest,
\* CancelPendingRequest and Drain panic, without decrementing, whenever their
\* decrement would take outstanding below zero.
C10_PanicInsteadOfUnderflow ==
    /\ [](outstanding <= maxOutstanding)
    /\ [][/\ ((aioOp' = "PopRequest" /\ results # <<>> /\ outstanding < 1) =>
                (aioPanic' /\ outstanding' = outstanding))
           /\ ((aioOp' = "CancelPendingRequest" /\ outstanding < 1) =>
                (aioPanic' /\ outstanding' = outstanding))
           /\ ((aioOp' = "Drain" /\ outstanding < Len(results)) =>
                (aioPanic' /\ outstanding' = outstanding))]_vars

\* C11: every WaitChannel call returns nil when the context is dead with
\* outstanding == 0 and the notification channel otherwise; the requestReady
\* field it reads is nil in exactly the dead and drained states.
C11_WaitChannelNilIffDeadAndDrained ==
    /\ [](requestReady = "nil" <=> (dead /\ outstanding = 0))
    /\ [][(aioOp' = "WaitChannel") =>
            (aioRet' = IF dead /\ outstanding = 0 THEN "nil" ELSE "chan")]_vars

\* WaitChannel has returned nil on a dead context whose requests, of which
\* some were prepared, are no longer outstanding.
C11_Witness ==
    /\ aioOp = "WaitChannel" /\ aioRet = "nil"
    /\ dead /\ outstanding = 0
    /\ nPrepared > 0 /\ nPopped + nCancelled + nDrained > 0

\* C28: on a context that was destroyed with requests outstanding, a Drain
\* that finds every request still outstanding finished (its result queued)
\* drops the results, brings outstanding to zero and closes requestReady,
\* once; and such a context never has outstanding at zero with requestReady
\* still open.
C28_DrainAfterDestroyCloses ==
    /\ [][(/\ aioOp' = "Drain"
           /\ dead /\ nAtDestroy > 0
           /\ outstanding > 0 /\ Len(results) = outstanding) =>
            (/\ requestReady = "chan" /\ requestReady' = "nil"
             /\ chanCloses' = chanCloses + 1
             /\ outstanding' = 0 /\ results' = <<>>
             /\ ~aioPanic')]_vars
    /\ [](dead /\ nAtDestroy > 0 /\ outstanding = 0 => requestReady = "nil")

\* The context was destroyed with two requests outstanding; both have been
\* finished since and a Drain has dropped their results and closed the
\* channel.
C28_Witness ==
    /\ aioOp = "Drain" /\ dead /\ nAtDestroy = 2
    /\ nFinished >= 2 /\ nDrained = 2 /\ nPopped = 0 /\ nCancelled = 0
    /\ outstanding = 0 /\ results = <<>>
    /\ requestReady = "nil" /\ chanCloses = 1

\* FinishRequest has been called only for requests that a successful
\* Prepare reserved and that are not cancelled: the calls made so far are
\* no more than the requests prepared and not cancelled.
FinishOnlyReserved == nFinished <= nPrepared - nCancelled

\* C39: as long as FinishRequest is called only for requests reserved by a
\* successful Prepare and not cancelled, the queued results are at most
\* outstanding, and outstanding is at most maxOutstanding.
C39_ResultsWithinOutstanding ==
    ([]FinishOnlyReserved) =>
        [](Len(results) <= outstanding /\ outstanding <= maxOutstanding)

\* Every request of a context at capacity is finished and queued, after a
\* cancel, a pop and a drain: results, outstanding and maxOutstanding are
\* equal.
C39_Witness ==
    /\ FinishOnlyReserved
    /\ nFinished = Len(results) + nPopped + nDrained
    /\ nCancelled > 0 /\ nPopped + nDrained > 0
    /\ Len(results) = outstanding /\ outstanding = maxOutstanding
    /\ maxOutstanding > 0

(***************************************************************************)
(* Properties of the Config overrides and of the CPU count.                *)
(***************************************************************************)

\* An Override call of an annotation (force is false) for oci-seccomp
\* returns in this step.
OciSeccompOverrideStep ==
    /\ nOverrides' = nOverrides + 1
    /\ ovArg'.name = "oci-seccomp"
    /\ ~ovArg'.force

\* C19: an annotation override of oci-seccomp made while allow-flag-override
\* is off fails and changes neither the Config nor the flag set when the
\* value is a boolean false, and sets the field to true when the value is a
\* boolean true; with allow-flag-override on, a false value is written to
\* the field.
C19_OciSeccompEnabledNotDisabled ==
    [][OciSeccompOverrideStep /\ ParseBool(ovArg'.value).ok =>
         IF ParseBool(ovArg'.value).v
         THEN /\ conf' = [conf EXCEPT !["oci-seccomp"] = TRUE]
              /\ ovErr' \in {"nil", "validate"}
         ELSE IF conf["allow-flag-override"]
              THEN conf' = [conf EXCEPT !["oci-seccomp"] = FALSE]
              ELSE /\ ovErr' = "disable"
                   /\ conf' = conf
                   /\ flagSet' = flagSet]_vars

\* With allow-flag-override off and oci-seccomp on, an annotation has asked
\* for oci-seccomp=false and was refused; oci-seccomp is still on.
C19_Witness ==
    /\ ovArg.name = "oci-seccomp"
    /\ ~ovArg.force
    /\ ParseBool(ovArg.value) = [ok |-> TRUE, v |-> FALSE]
    /\ ovErr = "disable"
    /\ ~conf["allow-flag-override"]
    /\ conf["oci-seccomp"]
    /\ flagSet["oci-seccomp"]

\* The larger of two integers.
MaxOf(a, b) == IF a >= b THEN a ELSE b

\* The smaller of two integers.
MinOf(a, b) == IF a <= b THEN a ELSE b

\* createSandboxProcess has put a --cpu-num on the command line with
\* cpu-num-from-quota set.
CPUNumFromQuotaDone ==
    /\ spErr = "nil"
    /\ spArg.cgroup
    /\ conf["cpu-num-from-quota"]

ClaimedKey(e) ==
    IF e.sysnr = "SYS_PRCTL" THEN <<e.regs[0]>>
    ELSE IF e.sysnr \in {"SYS_IOCTL", "SYS_FUTEX"} THEN <<e.regs[1]>>
    ELSE IF e.sysnr \in {"SYS_GETSOCKOPT", "SYS_SETSOCKOPT"}
         THEN <<e.regs[1], e.regs[2]>>
    ELSE IF e.sysnr = "SYS_SEMCTL" THEN <<e.regs[2]>>
    ELSE <<>>

\* The key with epoll_ctl, shmctl and fallocate told apart by their second
\* argument as well.
EmitKey(e) ==
    IF e.sysnr \in {"SYS_EPOLL_CTL", "SYS_SHMCTL", "SYS_FALLOCATE"}
    THEN <<e.regs[1]>>
    ELSE ClaimedKey(e)

\* C22 as stated: no two emitted events have the same syscall number,
\* unless the syscall is ioctl, prctl, futex, getsockopt/setsockopt or
\* semctl and their keys differ.
C22_OncePerSyscallOrListedKey ==
    \A i, j \in 1 .. Len(emitted) :
        (i < j /\ emitted[i].sysnr = emitted[j].sysnr) =>
            ClaimedKey(emitted[i]) # ClaimedKey(emitted[j])

\* C22: no two emitted events have the same syscall number and the same
\* key, where epoll_ctl, shmctl and fallocate are keyed by their second
\* argument like ioctl and futex; an event whose syscall number and key
\* were emitted before emits nothing.
C22_OncePerSyscallAndKey ==
    [][/\ \A i, j \in 1 .. Len(emitted') :
             (i < j /\ emitted'[i].sysnr = emitted'[j].sysnr) =>
                 EmitKey(emitted'[i]) # EmitKey(emitted'[j])
       /\ Len(emitted') <= Len(emitted) + 1
       /\ \A k \in 1 .. Len(emitted) : emitted'[k] = emitted[k]]_vars

\* Two epoll_ctl events with different operations were both emitted, and a
\* third event that repeated one of them was not.
C22_Witness ==
    /\ nSyscalls = 3
    /\ Len(emitted) = 2
    /\ emitted[1].sysnr = "SYS_EPOLL_CTL"
    /\ emitted[2].sysnr = "SYS_EPOLL_CTL"
    /\ emitted[1].regs[1] # emitted[2].regs[1]

(***************************************************************************)
(* Properties of the namespaces of the sandbox process.                    *)
(***************************************************************************)

\* The network namespace entries among the namespaces chosen.
NetworkEntries == SelectSeq(nss, LAMBDA n : n.Type = "network")

\* C23 as stated: the sandbox is started in the container's network
\* namespace with host networking, in a new one with sandbox networking,
\* and with no network namespace entry when networking is disabled.
C23_NetworkNamespaceByNetworkType ==
    (nsRet = "nil") =>
        /\ (nsArg.Network = "host") => NetworkEntries = nsArg.specNetNS
        /\ (nsArg.Network = "sandbox") =>
               NetworkEntries = <<Namespace("network", "")>>
        /\ (nsArg.Network = "none") => NetworkEntries = <<>>

\* C23: the sandbox is started in the network namespace of the container's
\* spec if the spec has one and networking is host or sandbox; without one
\* in the spec no entry is added for host networking and a new namespace is
\* created for sandbox networking; with networking disabled a new namespace
\* is created whatever the spec says.
C23_NetworkNamespaceChosen ==
    (nsRet = "nil") =>
        /\ (nsArg.Network # "none" /\ nsArg.specNetNS # <<>>) =>
               NetworkEntries = nsArg.specNetNS
        /\ (nsArg.Network = "host" /\ nsArg.specNetNS = <<>>) =>
               NetworkEntries = <<>>
        /\ (nsArg.Network = "sandbox" /\ nsArg.specNetNS = <<>>) =>
               NetworkEntries = <<Namespace("network", "")>>
        /\ (nsArg.Network = "none") =>
               NetworkEntries = <<Namespace("network", "")>>

\* With networking disabled and a network namespace path in the spec, the
\* sandbox process is started in a new network namespace.
C23_Witness ==
    /\ nsRet = "nil"
    /\ nsArg.Network = "none"
    /\ nsArg.specNetNS = <<Namespace("network", "/proc/1/ns")>>
    /\ NetworkEntries = <<Namespace("network", "")>>

(***************************************************************************)
(* Properties of the subcontainers of a booted sandbox.                    *)
(***************************************************************************)

\* The step is the return of an RPC of goroutine r that began in this step.
ReturnsAtOnce(r) ==
    /\ rPc[r] = "idle" /\ rPc'[r] = "idle"
    /\ nRpcs' = nRpcs + 1
    /\ rArg'[r] # rArg[r] \/ rRet'[r] # rRet[r]

\* C33: at every point each exec entry (cid, pid # 0) of Loader.processes
\* belongs to a container whose root entry (cid, 0) is present and started,
\* that is, holds a thread group: no exec entry outlives its container.
C33_ExecEntriesOfStartedContainer ==
    \A cid \in LoaderCids :
        (processes[cid].execs # {}) =>
            (processes[cid].present /\ processes[cid].tg # NilTG)

\* The step is a destroySubcontainer of goroutine r returning nil.
DestroyReturnsNil(r) ==
    /\ rArg'[r].op = "DestroySubcontainer"
    /\ rRet'[r] = "nil"
    /\ ReturnsAtOnce(r) \/ (rPc[r] = "ds_wait" /\ rPc'[r] = "idle")

CreateReturns(r) ==
    /\ rArg'[r].op = "CreateSubcontainer"
    /\ ReturnsAtOnce(r)

\* C35: createSubcontainer(cid) returns an error and leaves Loader.processes
\* as it is when cid has an entry, and it adds the entry, with no thread
\* group and no exec entry, only when cid has none: a create never replaces
\* the entry of a container, whatever creates and destroys came before.
C35_CreateFailsOnExistingEntry ==
    [][\A r \in RpcThreads :
          CreateReturns(r) =>
              LET cid == rArg'[r].cid
              IN  IF processes[cid].present
                  THEN rRet'[r] = "err" /\ processes' = processes
                  ELSE /\ rRet'[r] = "nil"
                       /\ processes' = [processes EXCEPT ![cid] =
                             [present |-> TRUE, tg |-> NilTG,
                              execs |-> {}]]]_vars

\* A createSubcontainer has failed for a container that has been started
\* and has an exec entry, and the container's entries are as they were.
C35_Witness ==
    \E r \in RpcThreads :
        /\ rPc[r] = "idle"
        /\ rArg[r].op = "CreateSubcontainer" /\ rRet[r] = "err"
        /\ processes[rArg[r].cid].tg # NilTG
        /\ processes[rArg[r].cid].execs # {}

\* C36: the init process of a subcontainer is created at most once: a
\* startSubcontainer for a cid whose entry already holds a thread group
\* returns an error, creates no task and leaves the recorded thread group
\* as it is.
C36_StartedAtMostOnce ==
    [][\A r \in RpcThreads :
          (/\ rPc[r] = "ss_create" /\ rPc'[r] = "idle"
           /\ processes[rArg[r].cid].tg # NilTG) =>
              /\ rRet'[r] = "err"
              /\ tasks' = tasks
              /\ processes' = processes]_vars

\* The goroutines that are between the Pause and the Unpause of
\* signalAllProcesses.
InSignalAllProcesses ==
    {r \in RpcThreads : rPc[r] \in {"sig_send", "sig_deliver", "sig_unpause"}}

\* C40: signalAllProcesses leaves the pause state of the kernel as it found
\* it. The kernel's pauses in force are those of the calls in progress, one
\* each, and each call ends with one Unpause whether the delivery failed or
\* not; so when the deliveries to all processes, the destroys and the
\* gofer-monitor kills have returned the kernel is not paused.
C40_PauseMatchedByUnpause ==
    /\ [](kPaused = Cardinality(InSignalAllProcesses))
    /\ [][\A r \in RpcThreads :
             (rPc[r] = "sig_unpause" /\ rPc'[r] # "sig_unpause") =>
                 (kPaused' = kPaused - 1)]_vars
    /\ []((\A r \in RpcThreads : rPc[r] = "idle") => (kPaused = 0))

\* A destroySubcontainer whose delivery of the kill failed and a delivery to
\* all processes of a container have both returned, and the kernel is not
\* paused.
C40_Witness ==
    \E r, q \in RpcThreads :
        /\ rPc[r] = "idle" /\ rPc[q] = "idle"
        /\ rArg[r].op = "DestroySubcontainer" /\ rRet[r] = "err"
        /\ sSnap[r] # {}
        /\ processes[rArg[r].cid].tg # NilTG
        /\ rArg[q].op = "Signal" /\ rRet[q] = "nil"
        /\ sSnap[q] # {}
        /\ kPaused = 0

(***************************************************************************)
(* Properties of the start of the root container.                          *)
(***************************************************************************)

\* The boot goroutine is in Loader.run or about to send its result.
BootRunning ==
    mPc \in {"run_lock", "run_seccomp", "run_create", "run_start",
             "send_result"}

NoPauser ==
    \A q \in RpcThreads :
        rPc[q] \notin {"ck_save", "ck_unpause", "sig_send", "sig_deliver",
                       "sig_unpause"}

\* C38: a Restore that has returned an error has left the sandbox as it was
\* before the call: Loader.k is the kernel it was, Loader.restore is not
\* set, the root container's entry in Loader.processes has not been given
\* a thread group, and the kernel is not left paused by the call.
C38_FailedRestoreChangesNothing ==
    \A r \in RpcThreads :
        (rPc[r] = "idle" /\ rArg[r].op = "Restore" /\ rRet[r] = "err") =>
            /\ lK = "boot"
            /\ ~lRestore
            /\ processes["root"].tg = NilTG
            /\ NoPauser => (kPaused = 0)

====
